---- MODULE Spec2Model ----
(***************************************************************************)
(* A model of the usaw-results-archive scraper (src/unnamed/part_003, the  *)
(* latest revision of src/index.ts): the download orchestrator             *)
(* (runDownload), its per-record task, and the asset rewriter of one HTML  *)
(* document (downloadAsset and the three rewriting phases).                *)
(***************************************************************************)
EXTENDS Integers, Sequences, FiniteSets, TLC

(***************************************************************************)
(* Bounds of the model.                                                    *)
(***************************************************************************)
NumRecords == 6     \* records of the inventory
NumActive == 3      \* records not yet downloaded when the run starts
MaxWidth == 2       \* batch width of the runs with few records
LimitOpt == 2       \* the value of --limit, when given
MaxSites == 3       \* reference sites of a document

\* CONFIG.CONCURRENT_DOWNLOADS as shipped, and the fallback of `|| 5`.
CONCURRENT_DOWNLOADS == 5
FallbackWidth == 5
\* fetchWayback(url, retries = 3)
Retries == 3

Records == 1..NumRecords

VARIABLES
    batchWidth,     \* CONFIG.CONCURRENT_DOWNLOADS of this run
    dryRun,         \* options.dryRun
    limit,          \* options.limit (0: not given)
    isHtml,         \* record -> whether item.filename ends with '.html'
    origin,         \* record -> the main document as the archive serves it
    runMode,        \* options.discover / options.download / neither
    fields,         \* record -> the fields of the item that name its file
    paths,          \* record -> the file its targetPath names
    answers,        \* what the archive answers a request for an asset with
    argument,       \* a reference string and the original URL of its document
    result,         \* the absolute URL downloadAsset made of the argument
    persisted,      \* inventory.json: record -> [status, localPath]
    inventory,      \* the in-memory inventory of the run
    itemsToProcess, \* the filtered, sliced list (a sequence of records)
    i,              \* the loop variable of the batch loop
    runPc,          \* position of runDownload
    pc,             \* record -> position of its task in the current batch
    files,          \* record -> state of the file at its targetPath
    content,        \* record -> the reference sites of the file at its targetPath
    assets,         \* the era's assets directory: local file name -> bytes
    dataDir,        \* whether the directory CONFIG.DATA_DIR exists
    inventoryFile,  \* inventory.json: absent, readable, or not parseable
    order,          \* the ids of the array of runDiscovery, in its order
    tasks,          \* record -> the downloadAsset calls of its rewriter
    requested,      \* the network requests issued so far in this run
    mainOutcome,    \* record -> how the main-document stage of its attempt ended
    rewriteOutcome, \* record -> how the rewriter of its attempt ended
    loaded,         \* the inventory as runDownload read it
    before,         \* record -> the document as the rewriter read it
    run,            \* the number of the current run over this inventory
    previous        \* what the run before this one left behind

cfgVars == <<batchWidth, dryRun, limit, isHtml, origin, runMode, fields, paths, answers,
            argument, result>>
rootVars == <<dataDir, inventoryFile, order>>
loopVars == <<itemsToProcess, i, runPc, loaded, run>>
diskVars == <<files, content, assets>>
histVars == <<mainOutcome, rewriteOutcome, before, previous>>

vars == <<cfgVars, rootVars, loopVars, diskVars, histVars, persisted, inventory, pc,
          tasks, requested>>

Statuses == {"discovered", "downloaded", "failed", "skipped"}
NoPath == 0

\* InventoryItem, reduced to the two fields runDownload writes.
InventoryItem(st, lp) == [status |-> st, localPath |-> lp]

\* the fields of an InventoryItem that name its file; filename is the
\* sequence of the segments its text has between separators
ItemFields(era, year, category, filename) ==
    [era |-> era, year |-> year, category |-> category, filename |-> filename]

\* the file names of records that were discovered at different addresses
FileNames ==
    << "results.html", "minutes.pdf", "nationals.html", "records.pdf",
       "juniors.html", "masters.pdf", "schedule.html", "bylaws.pdf" >>

\* one file name and one directory for each record
PlainFields ==
    [r \in Records |-> ItemFields("msbn", "2005", "results", <<FileNames[r]>>)]

\* path.join normalizes its result: a '..' segment removes the segment
\* before it, and stays when there is none to remove
RECURSIVE PathNormalize(_, _)
PathNormalize(done, segs) ==
    IF segs = <<>> THEN done
    ELSE IF Head(segs) = ".." /\ done # <<>> /\ done[Len(done)] # ".."
            THEN PathNormalize(SubSeq(done, 1, Len(done) - 1), Tail(segs))
            ELSE PathNormalize(Append(done, Head(segs)), Tail(segs))

\* path.join(dataDir, item.era, item.year.toString(), item.category,
\* item.filename), with CONFIG.DATA_DIR = './data'
targetPath(item) ==
    PathNormalize(<<>>, <<"data", item.era, item.year, item.category>> \o item.filename)

\* the file at the targetPath of record r of an inventory with the fields
\* f, named by the first record of the inventory with that path
PathOf(f, r) ==
    CHOOSE q \in Records :
        /\ targetPath(f[q]) = targetPath(f[r])
        /\ \A p \in Records : targetPath(f[p]) = targetPath(f[r]) => q <= p

\* const targetPath = path.join(targetDir, item.filename)
TargetPath(r) == paths[r]

\* const batchSize = CONFIG.CONCURRENT_DOWNLOADS || 5
batchSize == IF batchWidth = 0 THEN FallbackWidth ELSE batchWidth

\* a filter that lets every record through
SelectableAnyStatus(item) == item.status \in Statuses

\* i.status === 'discovered' || i.status === 'failed'
Selectable(item) == item.status = "discovered" \/ item.status = "failed"

\* inventory.filter(pred): the records kept, in inventory order
RECURSIVE FilterFrom(_, _)
FilterFrom(inv, r) ==
    IF r > NumRecords THEN <<>>
    ELSE (IF Selectable(inv[r]) THEN <<r>> ELSE <<>>) \o FilterFrom(inv, r + 1)

\* a selection that does not look at options.limit
SelectUnsliced(inv, lim) == FilterFrom(inv, 1)

\* inventory.filter(...) followed by the optional slice(0, options.limit)
SelectItems(inv, lim) ==
    LET all == FilterFrom(inv, 1)
    IN  IF lim > 0 /\ lim < Len(all) THEN SubSeq(all, 1, lim) ELSE all

\* a slice without its end: itemsToProcess.slice(i)
BatchToEnd(items, k) ==
    {items[j] : j \in {j \in 1..Len(items) : j > k}}

\* itemsToProcess.slice(i, i + batchSize), as a set of records
Batch(items, k) ==
    {items[j] : j \in {j \in 1..Len(items) : j > k /\ j <= k + batchSize}}

CurrentBatch == Batch(itemsToProcess, i)

(***************************************************************************)
(* References, URLs and local file names.                                  *)
(*   A raw reference string is [form, name]:                               *)
(*     rel    name            (path-relative; a bare file name is one)     *)
(*     root   /name                                                        *)
(*     abs    http://<document host>/<document directory>/name             *)
(*     up     ../name         asset  ../../assets/<name>                   *)
(*     data   data:...        frag   #...        empty  (no value)         *)
(*     mailto mailto:name                                                  *)
(*     mention  http://<another host>/web.archive.org/name  (a live        *)
(*              address whose text contains the name of the archive)       *)
(*   Names 1 and 2 are files of the original site; a larger name is a      *)
(*   local file name (the hex digest with its extension).                  *)
(***************************************************************************)
Ref(form, name) == [form |-> form, name |-> name]
NoLink == Ref("none", 0)

\* item.timestamp
Timestamp(r) == 1

\* resolveUrl(rel): new URL(rel, item.originalUrl), as [at, name]
resolveUrl(ref) ==
    IF ref.form = "root" THEN [at |-> "root", name |-> ref.name]
    ELSE IF ref.form \in {"up", "asset"} THEN [at |-> "up", name |-> ref.name]
    ELSE IF ref.form \in {"mailto", "mention"} THEN [at |-> ref.form, name |-> ref.name]
    ELSE [at |-> "dir", name |-> ref.name]

\* if (absoluteUrl.includes('web.archive.org')) assetWaybackUrl = absoluteUrl
\* (mode "live": an address without the prefix of the archive), else
\* const prefix = isImage ? waybackImgPrefix : waybackPrefix;
\* assetWaybackUrl = `${prefix}/${absoluteUrl}`
AssetWaybackUrl(r, ref, isImage) ==
    [mode |-> IF ref.form = "mention" THEN "live"
              ELSE IF isImage THEN "im_" ELSE "id_",
     ts   |-> IF ref.form = "mention" THEN 0 ELSE Timestamp(r),
     at   |-> resolveUrl(ref).at,
     name |-> resolveUrl(ref).name]

\* crypto.createHash('md5').update(assetWaybackUrl).digest('hex') + safeExt:
\* an injective code of the address (collisions are not modelled), above
\* every name of the original site
Md5(w) ==
    10 + (((w.name * 3
            + (CASE w.at = "dir" -> 0 [] w.at = "root" -> 1 [] OTHER -> 2)) * 2
            + (IF w.mode = "im_" THEN 1 ELSE 0)) * 4 + w.ts)

LocalFilename(r, ref, isImage) == Md5(AssetWaybackUrl(r, ref, isImage))

\* the two forms downloadAsset returns: `../../assets/${localFilename}` when
\* the file was already stored, `localFilename` after a fresh download
StoredLink(f) == Ref("asset", f)
FreshLink(f) == Ref("rel", f)

\* src && !src.startsWith('data:') && !src.startsWith('#') && !src.startsWith('..')
Fetchable(ref) == ref.form \notin {"empty", "data", "frag", "up", "asset"}

\* a reference site of a document: the element, its attribute value, and for
\* a link element whether rel/type make it a stylesheet
Site(tag, ref, sheet) == [tag |-> tag, ref |-> ref, sheet |-> sheet]

\* the elements one $(selector).each pass pushes on assetsToProcess
RECURSIVE Collect(_, _, _)
Collect(doc, tag, j) ==
    IF j > Len(doc) THEN <<>>
    ELSE (IF /\ doc[j].tag = tag
             /\ (tag = "link" => doc[j].sheet)
             /\ Fetchable(doc[j].ref)
          THEN << [site |-> j, url |-> doc[j].ref, isImage |-> (tag = "img")] >>
          ELSE <<>>) \o Collect(doc, tag, j + 1)

\* PHASE 1: images, then stylesheet links, then scripts
assetsToProcess(doc) ==
    Collect(doc, "img", 1) \o Collect(doc, "link", 1) \o Collect(doc, "script", 1)

\* no request in flight
NoRequest == [kind |-> "none", r |-> 0, mode |-> "none", ts |-> 0, at |-> "none", name |-> 0]

\* a downloadAsset call at the start: everything up to its first await
NewTask(r, a) ==
    [site |-> a.site, url |-> a.url, isImage |-> a.isImage,
     file |-> LocalFilename(r, a.url, a.isImage),
     pc |-> "pathExists", saw |-> "none", resp |-> "none", bytes |-> 0,
     link |-> NoLink, cur |-> NoRequest, retries |-> 0, hops |-> 0,
     unanswered |-> FALSE]

\* PHASE 3: $(asset.element).attr(asset.attr, localLink) for every result
\* with a localLink, then $.html()
RECURSIVE ApplyFrom(_, _, _)
ApplyFrom(doc, results, k) ==
    IF k > Len(results) THEN doc
    ELSE ApplyFrom(IF results[k].link # NoLink
                      THEN [doc EXCEPT ![results[k].site].ref = results[k].link]
                      ELSE doc,
                   results, k + 1)

\* a rewrite by string: every occurrence of a resolved reference string is
\* replaced, wherever it stands in the document
ReplaceEverywhere(doc, results) ==
    [j \in 1..Len(doc) |->
        IF \E k \in 1..Len(results) :
              results[k].url = doc[j].ref /\ results[k].link # NoLink
           THEN [doc[j] EXCEPT !.ref =
                   results[CHOOSE k \in 1..Len(results) :
                       results[k].url = doc[j].ref /\ results[k].link # NoLink].link]
           ELSE doc[j]]

ApplyRewrites(doc, results) == ApplyFrom(doc, results, 1)

(***************************************************************************)
(* URLs as text.  An absolute URL is [scheme, host, port, path], with port *)
(* 0 when the text names no port and path a sequence of segments; a        *)
(* reference string is [kind, url, segs]: kind "abs" with the URL it       *)
(* spells, "root" for /segs, "path" for segs ('..' is a segment).          *)
(***************************************************************************)
Url(scheme, host, port, path) ==
    [scheme |-> scheme, host |-> host, port |-> port, path |-> path]
NoUrl == Url("none", "none", 0, <<>>)

RawAbs(url) == [kind |-> "abs", url |-> url, segs |-> <<>>]
RawRel(kind, segs) == [kind |-> kind, url |-> NoUrl, segs |-> segs]

DefaultPort(scheme) == IF scheme = "http" THEN 80 ELSE 443

\* the path of a parsed URL: a '..' segment removes the segment before it
RECURSIVE DotSegments(_, _)
DotSegments(done, segs) ==
    IF segs = <<>> THEN done
    ELSE IF Head(segs) = ".."
            THEN DotSegments(IF done = <<>> THEN done
                                ELSE SubSeq(done, 1, Len(done) - 1), Tail(segs))
            ELSE DotSegments(Append(done, Head(segs)), Tail(segs))

\* new URL(text): the parser keeps no default port (u.port is '')
NewURL(url) ==
    [url EXCEPT !.port = IF @ = DefaultPort(url.scheme) THEN 0 ELSE @,
                !.path = DotSegments(<<>>, @)]

\* new URL(rel, item.originalUrl) for a reference that is not absolute
NewURLOnBase(raw, originalUrl) ==
    LET base == NewURL(originalUrl)
        dir  == SubSeq(base.path, 1, Len(base.path) - 1)
    IN  [base EXCEPT !.path = DotSegments(<<>>,
                        IF raw.kind = "root" THEN raw.segs ELSE dir \o raw.segs)]

\* if ((u.protocol === 'http:' && u.port === '80') ||
\*     (u.protocol === 'https:' && u.port === '443')) u.port = ''
StripStandardPort(u) ==
    IF (u.scheme = "http" /\ u.port = 80) \/ (u.scheme = "https" /\ u.port = 443)
       THEN [u EXCEPT !.port = 0]
       ELSE u

\* cleanUrl: the text of the parsed URL when the parsed URL has a standard
\* port, else the reference as it is written
cleanUrl(raw) ==
    IF raw.kind # "abs" THEN raw
    ELSE LET u == NewURL(raw.url)
         IN  IF StripStandardPort(u) # u
                THEN RawAbs(StripStandardPort(u))
                ELSE raw

\* absoluteUrl: cleanUrl when it starts with 'http', else resolveUrl(cleanUrl)
\* = StripStandardPort(new URL(rel, item.originalUrl)).toString()
absoluteUrl(raw, originalUrl) ==
    IF cleanUrl(raw).kind = "abs"
       THEN cleanUrl(raw).url
       ELSE StripStandardPort(NewURLOnBase(cleanUrl(raw), originalUrl))

\* the reference strings and the original URLs the resolution is checked on
RawReferences ==
    {RawRel("path", segs) : segs \in {<<"x.gif">>, <<"images", "x.gif">>,
                                       <<"..", "images", "x.gif">>}}
    \cup {RawRel("root", segs) : segs \in {<<"images", "x.gif">>, <<"x.gif">>}}
    \cup {RawAbs(Url(scheme, host, port, <<"y.css">>)) :
            scheme \in {"http", "https"}, host \in {"site.org", "other.org"},
            port \in {0, 80, 443, 8080}}

OriginalUrls ==
    {Url("http", "site.org", port, <<"foo", "bar.html">>) : port \in {0, 80, 8080}}
    \cup {Url("https", "site.org", port, <<"foo", "bar.html">>) : port \in {0, 443}}

NoArgument == [raw |-> RawRel("none", <<>>), originalUrl |-> NoUrl]

\* no resolution is looked at on its own
NoResolution == argument = NoArgument /\ result = NoUrl

(***************************************************************************)
(* Network requests, as the run issues them.                               *)
(***************************************************************************)
Request(kind, r, mode, ts, at, name) ==
    [kind |-> kind, r |-> r, mode |-> mode, ts |-> ts, at |-> at, name |-> name]

\* axios({ url: item.waybackUrl, ... })
MainRequest(r) == Request("main", r, "id_", Timestamp(r), "doc", 0)

\* fetchWayback(assetWaybackUrl)
PrimaryRequest(r, t) ==
    LET w == AssetWaybackUrl(r, t.url, t.isImage)
    IN  Request("asset", r, w.mode, w.ts, w.at, w.name)

\* axios.get(cdxUrl): the index lookup for originalUrl, closest to item.timestamp
CdxRequest(r, t) ==
    LET u == resolveUrl(t.url)
    IN  Request("cdx", r, "none", Timestamp(r), u.at, u.name)

\* fetchWayback(directUrl): `http://web.archive.org/web/${ts}id_/${originalUrl}`
FallbackRequest(r, t, ts) ==
    LET u == resolveUrl(t.url)
    IN  Request("asset", r, "id_", ts, u.at, u.name)

(***************************************************************************)
(* The per-record task of a batch (the async callback of batch.map).       *)
(***************************************************************************)
\* a task without its catch: the rejection ends runDownload
RunAbortsOnItemError == "aborted"

\* the catch of the task: logs, marks the item failed, and swallows the error,
\* so that Promise.all of the batch is not rejected
RunAfterItemError == "await"

\* a rewriter without its own catch: its exception reaches the catch of the task
StatusIfRewriterRethrows(threw) == IF threw THEN "failed" ELSE "downloaded"

\* the inner catch around the rewriter logs and falls through to
\* item.status = 'downloaded'
StatusAfterRewriter(threw) == "downloaded"

\* a callback that writes through a variable all callbacks of the batch
\* share: the item of the last callback started
LastItem(r) == CHOOSE q \in CurrentBatch : \A p \in CurrentBatch : p <= q

\* the item of the callback batch.map(async (item) => ...) runs for record r
OwnItem(r) == r

\* a task that sets item.localPath before it knows how it ends
MarkWithPath(r, st) ==
    /\ inventory' = [inventory EXCEPT ![OwnItem(r)] = InventoryItem(st, TargetPath(r))]
    /\ pc' = [pc EXCEPT ![r] = "done"]

\* item.status = ...; item.localPath = targetPath
Mark(r, st) ==
    /\ inventory' = [inventory EXCEPT ![OwnItem(r)] =
            IF st = "downloaded"
                THEN InventoryItem("downloaded", TargetPath(r))
                ELSE InventoryItem("failed", @.localPath)]
    /\ pc' = [pc EXCEPT ![r] = "done"]

\* an exception of the main-document stage reaches the catch of the task
ItemFails(r, why) ==
    /\ Mark(r, "failed")
    /\ mainOutcome' = [mainOutcome EXCEPT ![r] = why]
    /\ runPc' = RunAfterItemError
    /\ UNCHANGED <<itemsToProcess, i, loaded, run>>

\* a task that post-processes only a document it fetched itself
AfterMainOfFetched(r, how) ==
    /\ mainOutcome' = [mainOutcome EXCEPT ![r] = how]
    /\ IF isHtml[r] /\ how = "fetched"
          THEN /\ pc' = [pc EXCEPT ![r] = "readFile"]
               /\ UNCHANGED inventory
          ELSE Mark(r, "downloaded")

\* after the main document is in place: the rewriter for '.html', else done
AfterMain(r, how) ==
    /\ mainOutcome' = [mainOutcome EXCEPT ![r] = how]
    /\ IF isHtml[r]
          THEN /\ pc' = [pc EXCEPT ![r] = "readFile"]
               /\ UNCHANGED inventory
          ELSE Mark(r, "downloaded")

Alive(r, at) == runPc = "await" /\ pc[r] = at

\* await fs.ensureDir(targetDir)
EnsureDir(r) ==
    /\ Alive(r, "ensureDir")
    /\ \E ok \in BOOLEAN :
          IF ok THEN /\ pc' = [pc EXCEPT ![r] = "pathExists"]
                     /\ UNCHANGED <<inventory, mainOutcome, loopVars>>
                ELSE ItemFails(r, "dirError")
    /\ UNCHANGED <<cfgVars, rootVars, diskVars, persisted, tasks, requested,
                   rewriteOutcome, before, previous>>

\* if (await fs.pathExists(targetPath)) downloaded = true; else the request
PathExists(r) ==
    /\ Alive(r, "pathExists")
    /\ IF files[TargetPath(r)] # "absent"
          THEN /\ AfterMain(r, "present")
               /\ UNCHANGED requested
          ELSE /\ pc' = [pc EXCEPT ![r] = "request"]
               /\ requested' = requested \cup {MainRequest(r)}
               /\ UNCHANGED <<inventory, mainOutcome>>
    /\ UNCHANGED <<cfgVars, rootVars, loopVars, diskVars, persisted, tasks,
                   rewriteOutcome, before, previous>>

\* the response of axios arrives; fs.createWriteStream(targetPath) creates
\* the file and the body is piped into it
MainResponse(r) ==
    /\ Alive(r, "request")
    /\ \E ok \in BOOLEAN :
          IF ok THEN /\ pc' = [pc EXCEPT ![r] = "stream"]
                     /\ files' = [files EXCEPT ![TargetPath(r)] = "partial"]
                     /\ content' = [content EXCEPT ![TargetPath(r)] = <<>>]
                     /\ UNCHANGED <<inventory, mainOutcome, loopVars>>
                ELSE /\ ItemFails(r, "fetchError")
                     /\ UNCHANGED <<files, content>>
    /\ UNCHANGED <<cfgVars, rootVars, assets, persisted, tasks, requested,
                   rewriteOutcome, before, previous>>

\* writer.on('finish', resolve); writer.on('error', reject)
StreamEnds(r) ==
    /\ Alive(r, "stream")
    /\ \E ok \in BOOLEAN :
          IF ok THEN /\ files' = [files EXCEPT ![TargetPath(r)] = "complete"]
                     /\ content' = [content EXCEPT ![TargetPath(r)] = origin[r]]
                     /\ AfterMain(r, "fetched")
                     /\ UNCHANGED loopVars
                ELSE /\ ItemFails(r, "writeError")
                     /\ UNCHANGED <<files, content>>
    /\ UNCHANGED <<cfgVars, rootVars, assets, persisted, tasks, requested,
                   rewriteOutcome, before, previous>>

(***************************************************************************)
(* The rewriter of an HTML document.                                       *)
(***************************************************************************)
\* the rewriter ended, by $.html() written or by an exception caught inside
RewriterEnds(r, how) ==
    /\ rewriteOutcome' = [rewriteOutcome EXCEPT ![r] = how]
    /\ Mark(r, StatusAfterRewriter(how # "rewritten"))
    /\ runPc' = IF StatusAfterRewriter(how # "rewritten") = "failed"
                   THEN RunAfterItemError ELSE runPc
    /\ UNCHANGED <<itemsToProcess, i, loaded, run>>

\* const content = await fs.readFile(targetPath, 'utf-8'); cheerio.load(content)
ReadFile(r) ==
    /\ Alive(r, "readFile")
    /\ \E ok \in BOOLEAN :
          IF ok THEN /\ before' = [before EXCEPT ![r] = content[TargetPath(r)]]
                     /\ pc' = [pc EXCEPT ![r] = "ensureAssets"]
                     /\ UNCHANGED <<inventory, rewriteOutcome, loopVars>>
                ELSE /\ RewriterEnds(r, "readError")
                     /\ UNCHANGED before
    /\ UNCHANGED <<cfgVars, rootVars, diskVars, persisted, tasks, requested, mainOutcome,
                   previous>>

\* await fs.ensureDir(assetsDir); PHASE 1; PHASE 2 starts every downloadAsset
EnsureAssetsDir(r) ==
    /\ Alive(r, "ensureAssets")
    /\ \E ok \in BOOLEAN :
          IF ok THEN /\ tasks' = [tasks EXCEPT ![r] =
                            [k \in 1..Len(assetsToProcess(before[r])) |->
                                NewTask(r, assetsToProcess(before[r])[k])]]
                     /\ pc' = [pc EXCEPT ![r] = "assets"]
                     /\ UNCHANGED <<inventory, rewriteOutcome, loopVars>>
                ELSE /\ RewriterEnds(r, "dirError")
                     /\ UNCHANGED tasks
    /\ UNCHANGED <<cfgVars, rootVars, diskVars, persisted, requested, mainOutcome, before,
                   previous>>

\* a rewriter that goes on as soon as one downloadAsset has ended
SomeAssetSettled(r) == \E k \in 1..Len(tasks[r]) : tasks[r][k].pc = "done"

\* const results = await Promise.all(downloadPromises)
AssetsSettled(r) == \A k \in 1..Len(tasks[r]) : tasks[r][k].pc = "done"

\* PHASE 3 and await fs.writeFile(targetPath, $.html())
WriteDoc(r) ==
    /\ Alive(r, "assets")
    /\ AssetsSettled(r)
    /\ \E ok \in BOOLEAN :
          IF ok THEN /\ content' = [content EXCEPT ![TargetPath(r)] =
                                        ApplyRewrites(before[r], tasks[r])]
                     /\ RewriterEnds(r, "rewritten")
                ELSE /\ RewriterEnds(r, "writeError")
                     /\ UNCHANGED content
    /\ UNCHANGED <<cfgVars, rootVars, files, assets, persisted, tasks, requested,
                   mainOutcome, before, previous>>

(***************************************************************************)
(* downloadAsset(url, isImage): one call per collected element.            *)
(***************************************************************************)
\* a download that does not look at the store first
AlwaysDownload(fileExists, fileSize) == TRUE

\* if (!fileExists || fileSize === 0)
NeedsDownload(fileExists, fileSize) == ~fileExists \/ fileSize = 0

\* a downloadAsset without its catch: the failure is thrown to Promise.all
ThrowsInstead(t) ==
    [t EXCEPT !.pc = "threw", !.resp = "none", !.link = NoLink,
              !.cur = NoRequest, !.unanswered = FALSE, !.retries = 0, !.hops = 0]

\* return null: the reference stays as it is
ReturnNull(t) ==
    [t EXCEPT !.pc = "done", !.resp = "none", !.link = NoLink,
              !.cur = NoRequest, !.unanswered = FALSE, !.retries = 0, !.hops = 0]

\* a resolution that asks the index after every primary fetch
CdxAlways(resp) == TRUE

\* if (!response || (response.status === 200 && (!response.data ||
\*     response.data.length === 0)))
NeedsCdx(resp) == resp \in {"throw", "null", "empty"}

\* what fetchWayback can come back with: an exception (network error or a
\* status of 400 and above), null (a redirect that is not followed), a 200
\* with a body, a 200 without, or another status below 300
FetchResults == {"throw", "null", "ok", "empty", "other"}

\* the Location of a 3xx answer: none, an archived address (of the capture
\* at another timestamp), a live address, or a live address whose text
\* contains 'web.archive.org/web/'
Locations == {"none", "wayback", "live", "mention"}

\* a 3xx answer, by its Location [to, ts]
Redirect(to, ts) == [to |-> to, ts |-> ts]
LocationOf(a) ==
    CASE a = "3xx to wayback" -> Redirect("wayback", 2)
      [] a = "3xx to live"      -> Redirect("live", 0)
      [] a = "3xx to mention"   -> Redirect("mention", 0)
      [] OTHER                  -> Redirect("none", 0)

Redirects == {"3xx", "3xx to live", "3xx to mention", "3xx to wayback"}

\* what one request can be answered with: what ends fetchWayback, a 200
\* whose body is an HTML page, or a redirect
Responses == (FetchResults \ {"null"}) \cup {"html"} \cup Redirects

\* the answers of an archive that does not redirect
PlainResponses == FetchResults \ {"null"}

\* res.status >= 300 && res.status < 400
IsRedirect(a) == a \in Redirects

\* location.includes('web.archive.org/web/')
LooksArchived(loc) == loc.to \in {"wayback", "mention"}

\* tsMatch = url.match(/\/web\/(\d{14})id_\//);
\* timestamp = tsMatch ? tsMatch[1] : item.timestamp
RedirectTimestamp(r, cur) == IF cur.mode = "id_" THEN cur.ts ELSE Timestamp(r)

\* the address of the next request of fetchWayback after a redirect: the
\* Location as it is when it looks archived, else
\* `http://web.archive.org/web/${timestamp}id_/${targetUrl}`
RedirectTarget(r, cur, loc) ==
    IF LooksArchived(loc)
       THEN IF loc.to = "wayback"
               THEN [cur EXCEPT !.ts = loc.ts]
               ELSE [cur EXCEPT !.mode = "live", !.ts = 0]
       ELSE [cur EXCEPT !.mode = "id_", !.ts = RedirectTimestamp(r, cur)]

\* a fetchWayback that follows without counting
RetriesKept(retries) == retries

\* fetchWayback(location, retries - 1)
RetriesLeft(retries) == retries - 1

\* fetchWayback(url, retries = 3), at the answer `a` to its request in
\* flight: the call goes on with the next request (resp stays "none") or ends
\* with a result in resp
fetchWayback(r, t, a) ==
    IF ~IsRedirect(a) THEN [t EXCEPT !.resp = a]
    ELSE IF LocationOf(a).to = "none" \/ t.retries = 0 THEN [t EXCEPT !.resp = "null"]
    ELSE [t EXCEPT !.cur = RedirectTarget(r, t.cur, LocationOf(a)),
                   !.retries = RetriesLeft(t.retries),
                   !.hops = t.hops + 1]

\* the first request of a call of fetchWayback
StartFetch(t, q) ==
    [t EXCEPT !.cur = q, !.retries = Retries, !.hops = 1, !.resp = "none"]

\* a write that does not look at the response
StoresAnything(resp) == TRUE

\* response && response.status === 200 && response.data && response.data.length > 0
Storable(resp) == resp \in {"ok", "html"}

\* response.data: the body of the capture fetched first, of the capture the
\* index named (a longer one), or an HTML page
BodyOf(resp, call) ==
    IF resp = "html" THEN 4 ELSE IF call = "primary" THEN 1 ELSE 2

\* the length of a stored body (3: the head of one body, the tail of another)
SizeOf(body) == CASE body = 0 -> 0 [] body \in {1, 4} -> 1 [] OTHER -> 2

\* what a file holds after `body` is written from its start over `there`
\* (what others wrote since this writer opened and truncated it)
WrittenOver(body, there) == IF SizeOf(there) > SizeOf(body) THEN 3 ELSE body

\* downloadAsset after its primary fetchWayback ended with t.resp: the index
\* lookup, the write, or return null
AfterPrimary(t) ==
    IF NeedsCdx(t.resp)
       THEN [t EXCEPT !.pc = "cdx", !.unanswered = (t.resp = "null")]
    ELSE IF Storable(t.resp)
            THEN [t EXCEPT !.pc = "write", !.bytes = BodyOf(t.resp, "primary")]
            ELSE ReturnNull(t)

\* downloadAsset after the fetchWayback of the fallback ended with t.resp
AfterFallback(t) ==
    IF Storable(t.resp)
       THEN [t EXCEPT !.pc = "write", !.bytes = BodyOf(t.resp, "fallback")]
       ELSE ReturnNull(t)

AssetAt(r, k, at) ==
    /\ Alive(r, "assets")
    /\ k \in 1..Len(tasks[r])
    /\ tasks[r][k].pc = at

AssetFrame == UNCHANGED <<cfgVars, rootVars, loopVars, files, content, histVars,
                          persisted, inventory, pc>>

\* the primary fetch starts: fetchWayback(assetWaybackUrl)
StartPrimary(r, k, saw) ==
    /\ tasks' = [tasks EXCEPT ![r][k] =
                    [StartFetch(@, PrimaryRequest(r, @)) EXCEPT
                        !.pc = "primary", !.saw = saw]]
    /\ requested' = requested \cup {PrimaryRequest(r, tasks[r][k])}

\* const fileExists = await fs.pathExists(localPath)
AssetPathExists(r, k) ==
    /\ AssetAt(r, k, "pathExists")
    /\ IF tasks[r][k].file \in DOMAIN assets
          THEN /\ tasks' = [tasks EXCEPT ![r][k].pc = "stat"]
               /\ UNCHANGED requested
          ELSE IF NeedsDownload(FALSE, 0)
                  THEN StartPrimary(r, k, "absent")
                  ELSE /\ tasks' = [tasks EXCEPT ![r][k].pc = "done",
                                        ![r][k].saw = "absent",
                                        ![r][k].link = StoredLink(tasks[r][k].file)]
                       /\ UNCHANGED requested
    /\ UNCHANGED assets
    /\ AssetFrame

\* const fileSize = (await fs.stat(localPath)).size
AssetStat(r, k) ==
    /\ AssetAt(r, k, "stat")
    /\ LET size == SizeOf(assets[tasks[r][k].file])
       IN  IF NeedsDownload(TRUE, size)
              THEN StartPrimary(r, k, IF size = 0 THEN "empty" ELSE "data")
              ELSE /\ tasks' = [tasks EXCEPT ![r][k].pc = "done",
                                    ![r][k].saw = "data",
                                    ![r][k].link = StoredLink(tasks[r][k].file)]
                   /\ UNCHANGED requested
    /\ UNCHANGED assets
    /\ AssetFrame

\* an answer to the request in flight of response = await
\* fetchWayback(assetWaybackUrl): the next request of the call, or its end
\* and the decision to fall back
AssetPrimary(r, k) ==
    /\ AssetAt(r, k, "primary")
    /\ \E a \in answers :
          LET t == fetchWayback(r, tasks[r][k], a)
          IN  IF t.resp = "none"
                 THEN /\ tasks' = [tasks EXCEPT ![r][k] = t]
                      /\ requested' = requested \cup {t.cur}
                 ELSE /\ tasks' = [tasks EXCEPT ![r][k] = AfterPrimary(t)]
                      /\ requested' = IF AfterPrimary(t).pc = "cdx"
                                         THEN requested \cup {CdxRequest(r, t)}
                                         ELSE requested
    /\ UNCHANGED assets
    /\ AssetFrame

\* cdxRes = await axios.get(cdxUrl): no usable row, an exception, or the
\* timestamp of the closest snapshot
AssetCdx(r, k) ==
    /\ AssetAt(r, k, "cdx")
    /\ \E ts \in {0, 1, 2} :
          IF ts = 0
             THEN /\ tasks' = [tasks EXCEPT ![r][k] = ReturnNull(@)]
                  /\ UNCHANGED requested
             ELSE /\ tasks' = [tasks EXCEPT ![r][k] =
                        [StartFetch(@, FallbackRequest(r, @, ts)) EXCEPT
                            !.pc = "fallback"]]
                  /\ requested' = requested \cup {FallbackRequest(r, tasks[r][k], ts)}
    /\ UNCHANGED assets
    /\ AssetFrame

\* an answer to the request in flight of response = await
\* fetchWayback(directUrl); an exception is caught by the catch of the
\* lookup and leaves the earlier response
AssetFallback(r, k) ==
    /\ AssetAt(r, k, "fallback")
    /\ \E a \in answers :
          LET t == fetchWayback(r, tasks[r][k], a)
          IN  IF t.resp = "none"
                 THEN /\ tasks' = [tasks EXCEPT ![r][k] = t]
                      /\ requested' = requested \cup {t.cur}
                 ELSE /\ tasks' = [tasks EXCEPT ![r][k] = AfterFallback(t)]
                      /\ UNCHANGED requested
    /\ UNCHANGED assets
    /\ AssetFrame

\* await fs.writeFile(localPath, response.data), its first part: the file is
\* opened for writing, which creates it or cuts it to zero length
AssetOpen(r, k) ==
    /\ AssetAt(r, k, "write")
    /\ assets' = (tasks[r][k].file :> 0) @@ assets
    /\ tasks' = [tasks EXCEPT ![r][k].pc = "writing"]
    /\ UNCHANGED requested
    /\ AssetFrame

\* await fs.writeFile(localPath, response.data), its second part: the body
\* is written from the start of the file; return localFilename
AssetWrite(r, k) ==
    /\ AssetAt(r, k, "writing")
    /\ \E ok \in BOOLEAN :
          IF ok THEN /\ assets' = (tasks[r][k].file :>
                                     WrittenOver(tasks[r][k].bytes,
                                                 assets[tasks[r][k].file])) @@ assets
                     /\ tasks' = [tasks EXCEPT ![r][k] =
                           [@ EXCEPT !.pc = "done", !.resp = "none",
                                     !.cur = NoRequest, !.retries = 0, !.hops = 0,
                                     !.link = FreshLink(tasks[r][k].file)]]
                ELSE /\ tasks' = [tasks EXCEPT ![r][k] = ReturnNull(@)]
                     /\ UNCHANGED assets
    /\ UNCHANGED requested
    /\ AssetFrame

(***************************************************************************)
(* runDownload: loading, the batch loop, the save after each batch.        *)
(***************************************************************************)
\* the constructor of Downloader: fs.ensureDirSync(this.dataDir)
NewDownloader == TRUE

\* let inventory = await fs.readJSON(inventoryPath); the filter and the
\* slice; return when nothing is left; const downloader = new Downloader()
LoadInventory ==
    /\ runPc = "start"
    /\ inventoryFile = "ok"
    /\ inventory' = persisted
    /\ loaded' = persisted
    /\ itemsToProcess' = SelectItems(persisted, limit)
    /\ i' = 0
    /\ runPc' = IF Len(SelectItems(persisted, limit)) = 0 THEN "done" ELSE "loop"
    /\ dataDir' = IF Len(SelectItems(persisted, limit)) = 0 THEN dataDir ELSE NewDownloader
    /\ UNCHANGED <<cfgVars, inventoryFile, order, diskVars, histVars, persisted, pc,
                   tasks, requested, run>>

StartBatch ==
    /\ runPc = "loop"
    /\ i < Len(itemsToProcess)
    /\ IF dryRun
          THEN /\ i' = i + batchSize
               /\ UNCHANGED <<runPc, pc>>
          ELSE /\ pc' = [r \in Records |->
                           IF r \in CurrentBatch THEN "ensureDir" ELSE pc[r]]
               /\ runPc' = "await"
               /\ UNCHANGED i
    /\ UNCHANGED <<cfgVars, rootVars, diskVars, histVars, persisted, inventory,
                   itemsToProcess, loaded, run, tasks, requested>>

EndLoop ==
    /\ runPc = "loop"
    /\ i >= Len(itemsToProcess)
    /\ runPc' = "done"
    /\ UNCHANGED <<cfgVars, rootVars, diskVars, histVars, persisted, inventory,
                   itemsToProcess, i, loaded, run, pc, tasks, requested>>

\* the loop goes on as soon as one task of the batch has ended
AnySettled == \E r \in CurrentBatch : pc[r] = "done"

\* await Promise.all(batch.map(...)): every task of the batch has ended
BatchSettled == \A r \in CurrentBatch : pc[r] = "done"

\* a save that writes nothing
WriteNothing(inv, old) == old

\* fs.writeJSON(inventoryPath, inventory): what the file holds afterwards
WriteJSON(inv, old) == inv

SaveInventory ==
    /\ runPc = "await"
    /\ BatchSettled
    /\ \E ok \in BOOLEAN :
          IF ok THEN /\ persisted' = WriteJSON(inventory, persisted)
                     /\ i' = i + batchSize
                     /\ runPc' = "loop"
                ELSE /\ runPc' = "aborted"
                     /\ UNCHANGED <<persisted, i>>
    /\ UNCHANGED <<cfgVars, rootVars, diskVars, histVars, inventory, itemsToProcess,
                   loaded, run, pc, tasks, requested>>

\* the process is interrupted: only the disk survives
Crash ==
    /\ runPc \in {"loop", "await"}
    /\ runPc' = "crashed"
    /\ UNCHANGED <<cfgVars, rootVars, diskVars, histVars, persisted, inventory,
                   itemsToProcess, i, loaded, run, pc, tasks, requested>>

(***************************************************************************)
(* Initial states.                                                         *)
(***************************************************************************)
\* a page without any image, stylesheet or script: one hyperlink
PlainDoc == << Site("a", Ref("rel", 1), FALSE) >>

NoAssets == [f \in {} |-> 0]

\* (status, file at targetPath) of a record left by discovery, by a failed
\* attempt, by a completed attempt, or by reset_inventory.js
RecordShapes ==
    { <<"discovered", "absent">>, <<"discovered", "complete">>,
      <<"failed", "absent">>, <<"failed", "partial">>,
      <<"downloaded", "complete">> }

InitRun ==
    /\ inventory = [r \in Records |-> InventoryItem("discovered", NoPath)]
    /\ loaded = inventory
    /\ itemsToProcess = <<>>
    /\ i = 0
    /\ runPc = "start"
    /\ run = 1
    /\ pc = [r \in Records |-> "idle"]
    /\ tasks = [r \in Records |-> <<>>]
    /\ requested = {}
    /\ mainOutcome = [r \in Records |-> "none"]
    /\ rewriteOutcome = [r \in Records |-> "none"]
    /\ before = [r \in Records |-> <<>>]
    /\ previous = [settled |-> {}, content |-> content, assets |-> assets]

\* The inventory at the start: the records after the first `active` ones
\* were set aside earlier (status `rest`: downloaded by an earlier run, or
\* skipped); of the others, one at most (`special`) is not a freshly
\* discovered one.
InitInventory(active, rest, special, shape) ==
    /\ persisted = [r \in Records |->
          IF r > active THEN InventoryItem(rest, TargetPath(r))
          ELSE InventoryItem(IF r = special THEN shape[1] ELSE "discovered",
                             IF r = special /\ shape[1] = "downloaded"
                                 THEN TargetPath(r) ELSE NoPath)]
    /\ files = [r \in Records |->
          IF r > active THEN "complete"
          ELSE IF r = special THEN shape[2] ELSE "absent"]
    /\ content = [r \in Records |->
          IF r > active \/ (r = special /\ shape[2] = "complete")
              THEN origin[r] ELSE <<>>]

\* a download run over a readable inventory of records with files of their
\* own, the data directory in place
PlainSetting ==
    /\ runMode = "download"
    /\ fields = PlainFields
    /\ paths = [r \in Records |-> PathOf(PlainFields, r)]
    /\ dataDir = TRUE
    /\ inventoryFile = "ok"
    /\ order = <<>>

\* Odd records are HTML pages (without assets), even ones other documents.
Init ==
    /\ PlainSetting
    /\ NoResolution
    /\ answers = PlainResponses
    /\ batchWidth = MaxWidth
    /\ dryRun = FALSE
    /\ limit \in {0, LimitOpt}
    /\ isHtml = [r \in Records |-> r % 2 = 1]
    /\ origin = [r \in Records |-> IF r % 2 = 1 THEN PlainDoc ELSE <<>>]
    /\ \E special \in 1..NumActive, shape \in RecordShapes :
          InitInventory(NumActive, "downloaded", special, shape)
    /\ assets = NoAssets
    /\ InitRun

\* The shipped configuration: CONCURRENT_DOWNLOADS records at a time, here
\* over an inventory of freshly discovered documents that are not HTML.
InitWide ==
    /\ PlainSetting
    /\ NoResolution
    /\ answers = PlainResponses
    /\ batchWidth = CONCURRENT_DOWNLOADS
    /\ dryRun = FALSE
    /\ limit = 0
    /\ isHtml = [r \in Records |-> FALSE]
    /\ origin = [r \in Records |-> <<>>]
    /\ InitInventory(NumRecords, "downloaded", 0, <<"discovered", "absent">>)
    /\ assets = NoAssets
    /\ InitRun

RecordStep(r) ==
    \/ EnsureDir(r)
    \/ PathExists(r)
    \/ MainResponse(r)
    \/ StreamEnds(r)
    \/ ReadFile(r)
    \/ EnsureAssetsDir(r)
    \/ WriteDoc(r)

Next ==
    \/ LoadInventory
    \/ StartBatch
    \/ EndLoop
    \/ SaveInventory
    \/ Crash
    \/ \E r \in Records : RecordStep(r)

Spec == Init /\ [][Next]_vars

NextWide ==
    \/ LoadInventory
    \/ StartBatch
    \/ EndLoop
    \/ SaveInventory
    \/ Crash
    \/ \E r \in Records : EnsureDir(r) \/ PathExists(r) \/ MainResponse(r) \/ StreamEnds(r)

SpecWide == InitWide /\ [][NextWide]_vars

(***************************************************************************)
(* A second run over the same inventory: reset_inventory.js puts every     *)
(* 'downloaded' record back to 'discovered' and the download is started    *)
(* again; the files stay where they are. The second run is explored after  *)
(* a first run that settled at least one record completely.                *)
(***************************************************************************)
\* item.status = 'discovered'; delete item.localPath
ResetItem(item) ==
    IF item.status = "downloaded" THEN InventoryItem("discovered", NoPath) ELSE item

\* the records whose attempt left the main document and every collected
\* asset on disk, in a rewritten document
Settled ==
    {r \in Records :
        /\ pc[r] = "done"
        /\ inventory[r].status = "downloaded"
        /\ files[TargetPath(r)] = "complete"
        /\ rewriteOutcome[r] = "rewritten"
        /\ \A k \in 1..Len(tasks[r]) : tasks[r][k].link # NoLink}

ResetAndRerun ==
    /\ runPc = "done"
    /\ run = 1
    /\ Settled # {}
    /\ persisted' = [r \in Records |-> ResetItem(persisted[r])]
    /\ previous' = [settled |-> Settled, content |-> content, assets |-> assets]
    /\ run' = run + 1
    /\ runPc' = "start"
    /\ inventory' = [r \in Records |-> InventoryItem("discovered", NoPath)]
    /\ loaded' = inventory'
    /\ itemsToProcess' = <<>>
    /\ i' = 0
    /\ pc' = [r \in Records |-> "idle"]
    /\ tasks' = [r \in Records |-> <<>>]
    /\ requested' = {}
    /\ mainOutcome' = [r \in Records |-> "none"]
    /\ rewriteOutcome' = [r \in Records |-> "none"]
    /\ before' = [r \in Records |-> <<>>]
    /\ UNCHANGED <<cfgVars, rootVars, diskVars>>

(***************************************************************************)
(* The rewriter at work: one or two HTML pages with references.            *)
(***************************************************************************)
Img(form, name) == Site("img", Ref(form, name), FALSE)

\* the pages of the first record
Documents ==
    { << Img("rel", 1), Site("link", Ref("rel", 2), TRUE), Site("a", Ref("rel", 1), FALSE) >>,
      << Img("rel", 1), Img("rel", 1) >>,
      << Img("rel", 1), Img("abs", 1) >>,
      << Img("data", 0), Site("script", Ref("rel", 2), FALSE), Img("up", 1) >>,
      << Site("link", Ref("rel", 2), FALSE), Img("root", 1), Img("empty", 0) >>,
      << Site("link", Ref("rel", 2), TRUE), Site("script", Ref("rel", 2), FALSE) >> }

\* the page of the second record, when it is one with an image
SharingDoc == << Img("rel", 1) >>

\* the stored file of the image `1` of a page, with bytes or zero-length
StoredImage(bytes) == (LocalFilename(1, Ref("rel", 1), TRUE) :> bytes)

InitRewrite ==
    /\ PlainSetting
    /\ NoResolution
    /\ answers = PlainResponses
    /\ batchWidth = MaxWidth
    /\ dryRun = FALSE
    /\ limit = 0
    /\ isHtml = [r \in Records |-> TRUE]
    /\ \E d \in Documents \cup {SharingDoc}, two \in BOOLEAN :
          /\ two <=> d = SharingDoc
          /\ origin = [r \in Records |->
                          IF r = 1 THEN d
                          ELSE IF r = 2 /\ two THEN SharingDoc ELSE PlainDoc]
          /\ \E shape \in {<<"discovered", "absent">>, <<"discovered", "complete">>} :
                InitInventory(IF two THEN 2 ELSE 1, "skipped", 1, shape)
    /\ assets \in {NoAssets, StoredImage(1), StoredImage(0)}
    /\ InitRun

AssetStep(r, k) ==
    \/ AssetPathExists(r, k)
    \/ AssetStat(r, k)
    \/ AssetPrimary(r, k)
    \/ AssetCdx(r, k)
    \/ AssetFallback(r, k)
    \/ AssetOpen(r, k)
    \/ AssetWrite(r, k)

NextRewrite ==
    \/ LoadInventory
    \/ StartBatch
    \/ EndLoop
    \/ SaveInventory
    \/ ResetAndRerun
    \/ \E r \in Records : RecordStep(r)
    \/ \E r \in Records, k \in 1..MaxSites : AssetStep(r, k)

SpecRewrite == InitRewrite /\ [][NextRewrite]_vars

(***************************************************************************)
(* Properties of the orchestrator.                                         *)
(***************************************************************************)
(* The resolution of one reference string, on its own.                     *)
(***************************************************************************)
InitResolve ==
    /\ PlainSetting
    /\ argument \in [raw : RawReferences, originalUrl : OriginalUrls]
    /\ result = NoUrl
    /\ answers = PlainResponses
    /\ batchWidth = MaxWidth
    /\ dryRun = FALSE
    /\ limit = 0
    /\ isHtml = [r \in Records |-> FALSE]
    /\ origin = [r \in Records |-> PlainDoc]
    /\ InitInventory(0, "downloaded", 1, <<"discovered", "absent">>)
    /\ assets = NoAssets
    /\ InitRun

\* const absoluteUrl = ... in downloadAsset
Resolve ==
    /\ result = NoUrl
    /\ argument # NoArgument
    /\ result' = absoluteUrl(argument.raw, argument.originalUrl)
    /\ UNCHANGED <<batchWidth, dryRun, limit, isHtml, origin, runMode, fields, paths, answers,
                   argument, rootVars,
                   loopVars, diskVars, histVars, persisted, inventory, pc,
                   tasks, requested>>

NextResolve == Resolve

SpecResolve == InitResolve /\ [][NextResolve]_vars

(***************************************************************************)
(* One reference at a time, against an archive that redirects.             *)
(***************************************************************************)
FetchDocuments ==
    { << Img("rel", 1) >>,
      << Site("script", Ref("rel", 2), FALSE) >>,
      << Site("link", Ref("root", 2), TRUE) >>,
      << Img("mention", 1) >>,
      << Site("script", Ref("mailto", 1), FALSE), Img("data", 0),
         Site("link", Ref("frag", 0), TRUE) >> }

InitFetch ==
    /\ PlainSetting
    /\ NoResolution
    /\ answers = Responses
    /\ batchWidth = MaxWidth
    /\ dryRun = FALSE
    /\ limit = 0
    /\ isHtml = [r \in Records |-> TRUE]
    /\ \E d \in FetchDocuments :
          origin = [r \in Records |-> IF r = 1 THEN d ELSE PlainDoc]
    /\ \E shape \in {<<"discovered", "absent">>, <<"failed", "complete">>} :
          InitInventory(1, "skipped", 1, shape)
    /\ assets \in {NoAssets, StoredImage(0)}
    /\ InitRun

NextFetch ==
    \/ LoadInventory
    \/ StartBatch
    \/ EndLoop
    \/ SaveInventory
    \/ \E r \in Records : RecordStep(r)
    \/ \E r \in Records, k \in 1..MaxSites : AssetStep(r, k)

SpecFetch == InitFetch /\ [][NextFetch]_vars

(***************************************************************************)
Positions == 1..Len(itemsToProcess)
BatchOf(j) == (j - 1) \div batchSize
InFlight == {r \in Records : pc[r] \notin {"idle", "done"}}
MainErrors == {"dirError", "fetchError", "writeError"}

\* C1: runDownload selects only records whose status is 'discovered' or
\* 'failed'; a selected record that was processed has status 'downloaded' or
\* 'failed'; a record that was 'downloaded' when the run started is left as it
\* was, in memory and in inventory.json.
C1_SelectionAndOutcome ==
    runPc # "start" =>
        \A r \in Records :
            /\ pc[r] # "idle" => loaded[r].status \in {"discovered", "failed"}
            /\ pc[r] = "done" => inventory[r].status \in {"downloaded", "failed"}
            /\ loaded[r].status = "downloaded" =>
                  /\ pc[r] = "idle"
                  /\ inventory[r] = loaded[r]
                  /\ persisted[r] = loaded[r]

C1_Witness ==
    /\ runPc = "done"
    /\ \E r, q, p \in Records :
          /\ loaded[r].status = "downloaded" /\ r <= NumActive
          /\ loaded[q].status = "discovered" /\ pc[q] = "done"
          /\ inventory[q].status = "downloaded"
          /\ pc[p] = "done" /\ inventory[p].status = "failed"

\* C2: the failure of one record's attempt changes that record only (its
\* status becomes 'failed'), leaves runDownload waiting for the batch, and
\* never disables the steps of the other records of the batch, the save of
\* the batch or the start of the next batch; a run that ends has brought
\* every selected record to 'downloaded' or 'failed'.
C2_FailureIsolated ==
    /\ [][\A r \in Records :
            (pc[r] # "done" /\ pc'[r] = "done" /\ inventory'[r].status = "failed") =>
                /\ runPc' = runPc
                /\ \A q \in Records \ {r} :
                      inventory'[q] = inventory[q] /\ pc'[q] = pc[q]]_vars
    /\ [](runPc = "await" =>
            /\ \A q \in CurrentBatch : pc[q] # "done" => ENABLED RecordStep(q)
            /\ BatchSettled => ENABLED SaveInventory)
    /\ [](runPc = "loop" /\ i < Len(itemsToProcess) => ENABLED StartBatch)
    /\ [](runPc = "done" =>
            \A j \in Positions :
                inventory[itemsToProcess[j]].status \in {"downloaded", "failed"})

C2_Witness ==
    /\ runPc = "done"
    /\ \E a, b, c \in Positions :
          /\ a # b /\ BatchOf(a) = BatchOf(b) /\ BatchOf(c) > BatchOf(a)
          /\ mainOutcome[itemsToProcess[a]] \in MainErrors
          /\ inventory[itemsToProcess[a]].status = "failed"
          /\ inventory[itemsToProcess[b]].status = "downloaded"
          /\ inventory[itemsToProcess[c]].status = "downloaded"

\* C5: a processed record is 'downloaded' exactly when its main document
\* was fetched or was already present, and 'failed' exactly when the
\* main-document stage (directory, request, write) failed, however the
\* rewriter ended.
C5_StatusFollowsMainDocument ==
    \A r \in Records :
        pc[r] = "done" =>
            /\ inventory[r].status = "downloaded" <=>
                  mainOutcome[r] \in {"present", "fetched"}
            /\ inventory[r].status = "failed" <=> mainOutcome[r] \in MainErrors

C5_Witness ==
    \E r \in Records :
        /\ pc[r] = "done"
        /\ rewriteOutcome[r] \in {"readError", "dirError", "writeError"}
        /\ mainOutcome[r] = "fetched"
        /\ inventory[r].status = "downloaded"

C7_BatchesInSequence ==
    \A j, k \in Positions :
        (pc[itemsToProcess[j]] # "idle" /\ BatchOf(k) < BatchOf(j)) =>
            /\ pc[itemsToProcess[k]] = "done"
            /\ inventory[itemsToProcess[k]].status \in {"downloaded", "failed"}
            /\ persisted[itemsToProcess[k]] = inventory[itemsToProcess[k]]

\* a later batch runs; in the first batch the later record failed and the
\* earlier one was downloaded
C7_Witness ==
    \E j, a, b \in Positions :
        /\ BatchOf(j) > 0 /\ pc[itemsToProcess[j]] \notin {"idle", "done"}
        /\ a < b /\ BatchOf(a) = 0 /\ BatchOf(b) = 0
        /\ inventory[itemsToProcess[a]].status = "downloaded"
        /\ inventory[itemsToProcess[b]].status = "failed"

\* C8: at every moment the number of records being processed is at most the
\* batch width, which is CONFIG.CONCURRENT_DOWNLOADS.
C8_BoundedConcurrency ==
    /\ Cardinality(InFlight) <= batchSize
    /\ batchSize = CONCURRENT_DOWNLOADS

C8_Witness ==
    /\ Cardinality(InFlight) = CONCURRENT_DOWNLOADS
    /\ \E r \in Records : pc[r] = "stream"

(***************************************************************************)
(* Properties of the rewriter and of the asset store.                      *)
(***************************************************************************)
TaskIds(r) == 1..Len(tasks[r])

\* the task k of record r ends in this step
TaskEnds(r, k) ==
    /\ run' = run
    /\ k \in TaskIds(r)
    /\ tasks[r][k].pc # "done"
    /\ tasks'[r][k].pc = "done"

\* the task k of record r writes its asset file in this step
TaskWrites(r, k) ==
    /\ run' = run
    /\ k \in TaskIds(r)
    /\ tasks[r][k].pc = "write"
    /\ tasks'[r][k].pc = "writing"

\* C3: while the references of a document are resolved, every reference
\* that has not ended can take its next step whatever happened to the
\* others; a reference that ends unresolved changes no other reference and
\* does not end the rewriter; when all have ended the document can be
\* written, and in the written document every resolved reference carries its
\* link.
C3_ReferenceFailureIsolated ==
    /\ [](\A r \in Records :
            Alive(r, "assets") =>
                /\ \A k \in TaskIds(r) :
                      tasks[r][k].pc # "done" => ENABLED AssetStep(r, k)
                /\ AssetsSettled(r) => ENABLED WriteDoc(r))
    /\ [][\A r \in Records : \A k \in 1..MaxSites :
            (TaskEnds(r, k) /\ tasks'[r][k].link = NoLink) =>
                /\ pc' = pc /\ rewriteOutcome' = rewriteOutcome
                /\ \A m \in TaskIds(r) \ {k} : tasks'[r][m] = tasks[r][m]]_vars
    /\ [](\A r \in Records :
            (pc[r] = "done" /\ rewriteOutcome[r] = "rewritten") =>
                \A k \in TaskIds(r) :
                    tasks[r][k].link # NoLink =>
                        content[TargetPath(r)][tasks[r][k].site].ref = tasks[r][k].link)

\* one reference ended unresolved after its requests failed; the other was
\* resolved and the document was written with its link
C3_Witness ==
    \E r \in Records : \E a, b \in TaskIds(r) :
        /\ pc[r] = "done" /\ rewriteOutcome[r] = "rewritten"
        /\ tasks[r][a].link = NoLink
        /\ \E q \in requested : q.r = r /\ q.name = tasks[r][a].url.name
        /\ tasks[r][b].link # NoLink
        /\ content[TargetPath(r)][tasks[r][b].site].ref = tasks[r][b].link
        /\ content[TargetPath(r)][tasks[r][a].site].ref = before[r][tasks[r][a].site].ref

\* the link of the task that resolved site j of record r, if there is one
ResolvedAt(r, j) ==
    {tasks[r][k].link : k \in {k \in TaskIds(r) :
                                 tasks[r][k].site = j /\ tasks[r][k].link # NoLink}}

\* a link to a stored asset file
LocalLink(ref) ==
    /\ ref.form \in {"asset", "rel"}
    /\ ref.name \in DOMAIN assets

C9_SecondRunIsIdle ==
    \A r \in Records :
        (run = 2 /\ r \in previous.settled) =>
            /\ \A q \in requested : q.r # r
            /\ pc[r] = "done" => content[TargetPath(r)] = previous.content[TargetPath(r)]
            /\ \A f \in DOMAIN previous.assets :
                  f \in DOMAIN assets /\ assets[f] = previous.assets[f]

\* C10 as claimed: a task writes its asset file only when, at the time of
\* the write, the file is absent or zero-length.
C10_NoWriteOverStoredFile ==
    [][\A r \in Records : \A k \in 1..MaxSites :
          TaskWrites(r, k) =>
              \/ tasks[r][k].file \notin DOMAIN assets
              \/ assets[tasks[r][k].file] = 0]_vars

\* C10, amended: a task writes its asset file only if its own check of the
\* store, made before its fetch, found the file absent or zero-length.
C10_WriteOnlyAfterMissingCheck ==
    [][\A r \in Records : \A k \in 1..MaxSites :
          TaskWrites(r, k) => tasks[r][k].saw \in {"absent", "empty"}]_vars

\* a file that the task found absent is written over the bytes another task
\* stored in the meantime
C10_Witness ==
    \E r \in Records : \E k \in TaskIds(r) :
        /\ tasks[r][k].pc = "write"
        /\ tasks[r][k].saw = "absent"
        /\ tasks[r][k].file \in DOMAIN assets
        /\ assets[tasks[r][k].file] > 0

(***************************************************************************)
(* Properties of one resolution: fetchWayback, the index lookup, the write.*)
(***************************************************************************)
InCall(t) == t.pc \in {"primary", "fallback"}

\* the task k of record r takes a step
TaskSteps(r, k) ==
    /\ run' = run
    /\ k \in TaskIds(r)
    /\ tasks'[r][k] # tasks[r][k]

\* C12 as claimed: a call of fetchWayback issues at most 4 requests, and a
\* reference whose direct fetch ended without a response, after more than 3
\* redirects or a redirect without Location, is reported unresolved.
C12_UnansweredIsUnresolved ==
    \A r \in Records : \A k \in TaskIds(r) :
        /\ tasks[r][k].hops <= Retries + 1
        /\ tasks[r][k].unanswered => tasks[r][k].link = NoLink

\* C12, amended: a call of fetchWayback issues at most 4 requests and every
\* answer either ends it or is followed by exactly one more request; an
\* answer that is no redirect ends the call with that answer, a redirect
\* without Location or after 3 followed redirects ends it without a
\* response; a direct fetch that ended without a response is followed by the
\* index lookup, and the reference is resolved only by the body of the
\* fallback fetch.
C12_RedirectsBounded ==
    /\ [](\A r \in Records : \A k \in TaskIds(r) :
            LET t == tasks[r][k]
            IN  /\ t.hops <= Retries + 1
                /\ InCall(t) =>
                      /\ t.hops + t.retries = Retries + 1
                      /\ \A a \in Responses :
                            LET u == fetchWayback(r, t, a)
                            IN  IF ~IsRedirect(a) THEN u.resp = a
                                ELSE IF LocationOf(a).to = "none" \/ t.hops = Retries + 1
                                        THEN u.resp = "null"
                                        ELSE /\ u.resp = "none"
                                             /\ u.hops = t.hops + 1
                /\ t.unanswered =>
                      /\ t.pc \notin {"pathExists", "stat", "primary"}
                      /\ t.link # NoLink => t.bytes = BodyOf("ok", "fallback")
                                              \/ t.bytes = BodyOf("html", "fallback"))
    /\ [][\A r \in Records : \A k \in 1..MaxSites :
            (TaskSteps(r, k) /\ InCall(tasks[r][k])) =>
                \/ tasks'[r][k].pc # tasks[r][k].pc
                \/ /\ tasks'[r][k].hops = tasks[r][k].hops + 1
                   /\ tasks'[r][k].cur \in requested']_vars

\* the direct fetch was redirected four times: four requests were issued, the
\* call ended without a response and the index is asked
C12_Witness ==
    \E r \in Records : \E k \in TaskIds(r) :
        /\ tasks[r][k].pc = "cdx"
        /\ tasks[r][k].unanswered
        /\ tasks[r][k].hops = Retries + 1

\* the address of a request is one of the archive
Archived(q) == q.mode # "live"

\* C13: every request made for an asset (the direct fetch, each followed
\* redirect, the index lookup, the fallback fetch) is addressed to the
\* archive, whatever the reference string and whatever Location is returned.
C13_OnlyArchiveRequests == \A q \in requested : Archived(q)

C16_NoHtmlStoredAsImage ==
    \A r \in Records : \A k \in TaskIds(r) :
        (tasks[r][k].isImage /\ tasks[r][k].file \in DOMAIN assets) =>
            assets[tasks[r][k].file] # BodyOf("html", "primary")

\* C18: no reference that is empty or begins with 'data:', '#' or 'mailto:'
\* is resolved: no task is started for it and no request is made for it.
C18_NonFetchableSkipped ==
    /\ \A r \in Records : \A k \in TaskIds(r) :
          tasks[r][k].url.form \notin {"empty", "data", "frag", "mailto"}
    /\ \A q \in requested : q.at # "mailto"

(***************************************************************************)
(* Properties of the references of a document and of their links.          *)
(***************************************************************************)
\* the tasks of the batch, as <<record, index>>
AllTasks == {<<r, k>> \in Records \X (1..MaxSites) : k \in TaskIds(r)}

\* a body as one fetch returned it
CompleteBody(b) ==
    b \in {BodyOf("ok", "primary"), BodyOf("ok", "fallback"), BodyOf("html", "primary")}

\* C11: when two tasks have fetched and stored the same asset address, the
\* asset file is non-empty and holds the complete body of one of the two
\* fetches, and both references carry the same link.
C11_SameAddressStoredOnce ==
    \A x, y \in AllTasks :
        LET t == tasks[x[1]][x[2]]
            u == tasks[y[1]][y[2]]
        IN  (x # y /\ t.file = u.file
               /\ t.pc = "done" /\ t.link = FreshLink(t.file)
               /\ u.pc = "done" /\ u.link = FreshLink(u.file)) =>
                /\ t.file \in DOMAIN assets
                /\ CompleteBody(assets[t.file])
                /\ t.link = u.link

\* a site the rewriter looks at: an image, a stylesheet link, a script
Collectable(site) ==
    \/ site.tag \in {"img", "script"}
    \/ site.tag = "link" /\ site.sheet

\* C19: every path-relative reference of a collectable site, one that begins
\* with '..' included, is offered for fetching: a task is started for it.
C19_EveryRelativeOffered ==
    \A r \in Records :
        Alive(r, "assets") =>
            \A j \in 1..Len(before[r]) :
                (Collectable(before[r][j]) /\ before[r][j].ref.form \in {"rel", "up"}) =>
                    \E k \in TaskIds(r) : tasks[r][k].site = j

\* C20: every link written into a rewritten document has the form
\* ../../assets/<file>, with <file> a file of the assets directory.
C20_LinksPointIntoAssets ==
    \A r \in Records :
        (pc[r] = "done" /\ rewriteOutcome[r] = "rewritten") =>
            \A j \in 1..Len(before[r]) :
                ResolvedAt(r, j) # {} =>
                    /\ content[TargetPath(r)][j].ref.form = "asset"
                    /\ content[TargetPath(r)][j].ref.name \in DOMAIN assets

(***************************************************************************)
(* Properties of the resolution of a reference string.                     *)
(***************************************************************************)
\* C17: a path-relative reference resolves against the directory of the
\* document, a reference beginning with '/' against the root of its host,
\* an absolute reference keeps its host and path, and in every case the
\* result names no default port (80 for http, 443 for https).
C17_ResolvedWithoutDefaultPort ==
    result # NoUrl =>
        LET raw  == argument.raw
            base == argument.originalUrl
        IN  /\ result.port # DefaultPort(result.scheme)
            /\ raw.kind = "abs" =>
                  /\ result.scheme = raw.url.scheme /\ result.host = raw.url.host
                  /\ result.path = raw.url.path
                  /\ result.port \in {0, raw.url.port}
            /\ raw.kind # "abs" =>
                  /\ result.scheme = base.scheme /\ result.host = base.host
                  /\ result.port \in {0, base.port}
            /\ raw.kind = "root" => result.path = raw.segs
            /\ raw = RawRel("path", <<"images", "x.gif">>)
                  => result.path = <<"foo", "images", "x.gif">>
            /\ raw = RawRel("path", <<"..", "images", "x.gif">>)
                  => result.path = <<"images", "x.gif">>
            /\ raw = RawRel("path", <<"x.gif">>) => result.path = <<"foo", "x.gif">>

(***************************************************************************)
(* The local file name of an asset, from the text of its reference.        *)
(***************************************************************************)
\* absoluteUrl.includes('web.archive.org'), on the text of the URL
IncludesArchiveName(url) ==
    \/ url.host = "web.archive.org"
    \/ \E j \in 1..Len(url.path) : url.path[j] = "web.archive.org"

\* assetWaybackUrl: absoluteUrl as it is when it contains the name of the
\* archive, else `${prefix}/${absoluteUrl}` with the prefix of the kind
assetWaybackUrl(raw, originalUrl, isImage, timestamp) ==
    LET abs == absoluteUrl(raw, originalUrl)
    IN  IF IncludesArchiveName(abs)
           THEN [prefix |-> "none", ts |-> 0, url |-> abs]
           ELSE [prefix |-> IF isImage THEN "im_" ELSE "id_",
                 ts |-> timestamp, url |-> abs]

\* path.extname of a file name: from its last '.', when that is not its
\* first character, to its end
Extname(name) ==
    CASE name = "x.gif"    -> ".gif"
      [] name = "y.css"    -> ".css"
      [] name = "z.backup" -> ".backup"
      [] OTHER             -> ""

\* the last segment of the reference as it is written
LastSegment(raw) ==
    LET segs == IF raw.kind = "abs" THEN raw.url.path ELSE raw.segs
    IN  IF segs = <<>> THEN "" ELSE segs[Len(segs)]

\* const ext = path.extname(cleanUrl.split('?')[0]) || (isImage ? '.jpg' : '.css');
\* const safeExt = ext.length > 5 ? (isImage ? '.jpg' : '.css') : ext
safeExt(raw, isImage) ==
    LET default == IF isImage THEN ".jpg" ELSE ".css"
        ext == IF Extname(LastSegment(cleanUrl(raw))) = ""
                  THEN default ELSE Extname(LastSegment(cleanUrl(raw)))
    IN  IF Len(ext) > 5 THEN default ELSE ext

\* const localFilename = `${hash}${safeExt}`, hash the MD5 of assetWaybackUrl
\* (taken as injective: the address stands for its digest)
localFilename(raw, originalUrl, isImage, timestamp) ==
    [hash |-> assetWaybackUrl(raw, originalUrl, isImage, timestamp),
     ext  |-> safeExt(raw, isImage)]

\* the reference strings whose names are compared: the same file written in
\* five ways, a file without extension, one with a long extension, an
\* address of the archive, a stylesheet
NameReferences ==
    { RawRel("path", <<"x.gif">>),
      RawRel("path", <<"images", "..", "x.gif">>),
      RawRel("root", <<"foo", "x.gif">>),
      RawAbs(Url("http", "site.org", 0, <<"foo", "x.gif">>)),
      RawAbs(Url("http", "site.org", 80, <<"foo", "x.gif">>)),
      RawRel("path", <<"counter">>),
      RawRel("path", <<"z.backup">>),
      RawAbs(Url("http", "web.archive.org", 0, <<"web", "counter">>)),
      RawRel("path", <<"y.css">>) }

\* two documents of one directory, one of them discovered with its port
NameDocuments ==
    { Url("http", "site.org", 0, <<"foo", "bar.html">>),
      Url("http", "site.org", 80, <<"foo", "baz.html">>) }

\* a collected element of a document: { url, isImage } and item.originalUrl
NameArguments == [raw : NameReferences, originalUrl : NameDocuments, isImage : BOOLEAN]

\* two elements wait for downloadAsset; no name was made yet
InitName ==
    /\ PlainSetting
    /\ argument \in [first : NameArguments, second : NameArguments]
    /\ result = <<>>
    /\ answers = PlainResponses
    /\ batchWidth = MaxWidth
    /\ dryRun = FALSE
    /\ limit = 0
    /\ isHtml = [r \in Records |-> FALSE]
    /\ origin = [r \in Records |-> PlainDoc]
    /\ InitInventory(0, "downloaded", 1, <<"discovered", "absent">>)
    /\ assets = NoAssets
    /\ InitRun

\* downloadAsset up to const localFilename, for the next of the two elements
NameAsset ==
    /\ Len(result) < 2
    /\ LET a == IF Len(result) = 0 THEN argument.first ELSE argument.second
       IN  result' = Append(result,
                        localFilename(a.raw, a.originalUrl, a.isImage, Timestamp(1)))
    /\ UNCHANGED <<batchWidth, dryRun, limit, isHtml, origin, runMode, fields, paths, answers,
                   argument, rootVars,
                   loopVars, diskVars, histVars, persisted, inventory, pc,
                   tasks, requested>>

NextName == NameAsset

SpecName == InitName /\ [][NextName]_vars

\* the canonical URL of a reference: absolute, normalized, without a default
\* port
CanonicalUrl(a) == NewURL(absoluteUrl(a.raw, a.originalUrl))

\* the canonical archived address of a reference: the address of the archive
\* itself when the reference is one, else the canonical URL under the prefix
\* of the kind and the timestamp of the document
CanonicalArchived(a) ==
    IF IncludesArchiveName(CanonicalUrl(a))
       THEN [prefix |-> "none", ts |-> 0, url |-> CanonicalUrl(a)]
       ELSE [prefix |-> IF a.isImage THEN "im_" ELSE "id_",
             ts |-> Timestamp(1), url |-> CanonicalUrl(a)]

\* C21: two references with the same canonical archived address get the same
\* local file name, extension included.
C21_NameFollowsAddress ==
    Len(result) = 2 =>
        (CanonicalArchived(argument.first) = CanonicalArchived(argument.second)
            => result[1] = result[2])

(***************************************************************************)
(* Properties of the phases of the rewriter.                               *)
(***************************************************************************)
\* the task has started a fetch sequence: its check of the store sent it to
\* the network
Fetched(t) == t.saw \in {"absent", "empty"}

\* C22: in one attempt on a document, no two resolutions with a fetch
\* sequence are made for the same reference string.
C22_OneFetchPerString ==
    \A r \in Records : \A k, m \in TaskIds(r) :
        (k # m /\ tasks[r][k].url = tasks[r][m].url) =>
            ~(Fetched(tasks[r][k]) /\ Fetched(tasks[r][m]))

\* the rewriter of record r is at work
Rewriting(r) == pc[r] \in {"readFile", "ensureAssets", "assets"}

\* every site PHASE 1 looks for has its downloadAsset call
AllCollected(r) ==
    \A j \in 1..Len(before[r]) :
        (Collectable(before[r][j]) /\ Fetchable(before[r][j].ref)) =>
            \E k \in TaskIds(r) :
                tasks[r][k].site = j /\ tasks[r][k].url = before[r][j].ref

\* C23: the rewriter works in three phases. A resolution takes a step only
\* when the calls for all reference sites of the document exist; the document
\* changes, while its rewriter is at work, only in the one step that ends
\* the rewriter, taken when every resolution has ended, and it then holds
\* all the rewrites; after that step the attempt does not change it again.
C23_ThreePhases ==
    /\ [][\A r \in Records : \A k \in 1..MaxSites :
            TaskSteps(r, k) => pc[r] = "assets" /\ AllCollected(r)]_vars
    /\ [][\A r \in Records :
            (run' = run /\ content'[TargetPath(r)] # content[TargetPath(r)]
               /\ Rewriting(r)) =>
                /\ pc[r] = "assets"
                /\ \A k \in TaskIds(r) : tasks[r][k].pc = "done"
                /\ content'[TargetPath(r)] = ApplyRewrites(before[r], tasks[r])
                /\ pc'[r] = "done" /\ rewriteOutcome'[r] = "rewritten"]_vars
    /\ [][\A r \in Records :
            (run' = run /\ pc[r] = "done") =>
                content'[TargetPath(r)] = content[TargetPath(r)]]_vars

\* a page with two collected references, both resolved, was written with
\* their links
C23_Witness ==
    \E r \in Records :
        /\ pc[r] = "done" /\ rewriteOutcome[r] = "rewritten"
        /\ Len(tasks[r]) = 2
        /\ \A k \in TaskIds(r) : tasks[r][k].link # NoLink
        /\ content[TargetPath(r)] # before[r]
        /\ content[TargetPath(r)] = ApplyRewrites(before[r], tasks[r])

(***************************************************************************)
(* runDiscovery: the rows of the index become inventory items.             *)
(*   A row is [original, timestamp, digest]; original is the address as    *)
(*   [dir, stem, ext, query, words]: the text up to the last '/', the file *)
(*   name in two parts, whether a '?' follows, and the keywords its text   *)
(*   contains; timestamp is [year, rest]; digest stands for its first 8    *)
(*   characters. Record r is the capture with the r-th digest.             *)
(***************************************************************************)
Original(dir, stem, ext, query, words) ==
    [dir |-> dir, stem |-> stem, ext |-> ext, query |-> query, words |-> words]

CdxResult(original, year, rest, mimetype, digest) ==
    [original |-> original, timestamp |-> [year |-> year, rest |-> rest],
     mimetype |-> mimetype, digest |-> digest]

\* what the index holds: a page captured twice in one year with different
\* content, an index page, a document, a page served by a script, and others
CdxRows ==
    << CdxResult(Original("usaw.org/", "results", ".html", FALSE, {"result"}),
                 "2003", "0105", "text/html", "AAAA1111"),
       CdxResult(Original("usaw.org/", "results", ".html", FALSE, {"result"}),
                 "2003", "0610", "text/html", "BBBB2222"),
       CdxResult(Original("usaw.org/events/", "index", ".htm", FALSE, {"event"}),
                 "2003", "0610", "text/html", "CCCC3333"),
       CdxResult(Original("usaw.org/docs/", "minutes", ".pdf", FALSE, {"minute"}),
                 "2004", "0301", "application/pdf", "DDDD4444"),
       CdxResult(Original("usaw.org/", "meet", ".aspx", TRUE, {"meet"}),
                 "2004", "0302", "text/html", "EEEE5555"),
       CdxResult(Original("usaw.org/forms/", "entry", ".asp", TRUE, {"entry", "form"}),
                 "2004", "0303", "application/msword", "FFFF6666"),
       CdxResult(Original("usaw.org/", "", "", FALSE, {"event"}),
                 "2005", "0101", "text/html", "GGGG7777"),
       CdxResult(Original("usaw.org/a/", "results", ".html", FALSE, {"result"}),
                 "2003", "0701", "text/html", "HHHH8888") >>

\* let filename = path.basename(r.original.split('?')[0]) || `file-${r.digest}.dat`
\* (the basename of an address that ends with '/' is its last segment, for
\* the root of the site the host), the digest appended for a query, a short name or an index page, and
\* .aspx/.asp turned into .html
Renamed(row) ==
    LET o    == row.original
        name == IF o.stem \o o.ext # "" THEN [stem |-> o.stem, ext |-> o.ext]
                ELSE IF o.dir = "usaw.org/" THEN [stem |-> "usaw", ext |-> ".org"]
                ELSE [stem |-> "", ext |-> ""]
        base == IF name.stem \o name.ext = ""
                   THEN [stem |-> "file-" \o row.digest, ext |-> ".dat"]
                   ELSE name
        long == IF o.query \/ Len(base.stem \o base.ext) < 5
                           \/ (base.stem = "index" /\ base.ext # "")
                   THEN [base EXCEPT !.stem = @ \o "-" \o row.digest]
                   ELSE base
    IN  [long EXCEPT !.ext = IF @ \in {".aspx", ".asp"} THEN ".html" ELSE @]

Filename(row) == Renamed(row).stem \o Renamed(row).ext

\* targetPath.endsWith('.html'), for the item of the row
EndsWithHtml(row) == Renamed(row).ext = ".html"

\* Categorizer.categorize(filename, r.original), by the keywords of the text
categorize(words) ==
    IF "result" \in words THEN "results"
    ELSE IF words \cap {"minute", "bylaw", "board"} # {} THEN "governance"
    ELSE IF words \cap {"entry", "form", "packet", "schedule"} # {}
            THEN "event_info"
    ELSE "uncategorized"

\* the item runDiscovery pushes for a row, as far as it names the file
NewItem(row, eraId) ==
    ItemFields(eraId, row.timestamp.year, categorize(row.original.words),
               <<Filename(row)>>)

\* the fields of the records when every record is the item of its row
DiscoveredFields == [r \in Records |-> NewItem(CdxRows[r], "early-web")]

\* no item with this id: the record is not in the inventory
Unlisted == InventoryItem("unlisted", NoPath)
EmptyInventory == [r \in Records |-> Unlisted]

\* for (const target of options.targets): the number of targets
NumTargets == 2

\* what cdxClient.search returns for a target: rows in the order of the index
SearchResults == { <<>>, <<1, 2>>, <<6, 3>>, <<3, 1>> }

\* results.slice(0, options.limit), when a limit is given
FilesToProcess(results, lim) ==
    IF lim > 0 /\ lim < Len(results) THEN SubSeq(results, 1, lim) ELSE results

\* a loop that pushes an item for every row, whether one with its id exists
\* or not
PushAll(inv, results) ==
    [r \in Records |->
        IF \E j \in 1..Len(results) : results[j] = r
           THEN InventoryItem("discovered", NoPath)
           ELSE inv[r]]

\* for (const r of filesToProcess): an item is pushed unless one with its id
\* exists
PushNew(inv, results) ==
    [r \in Records |->
        IF inv[r].status = "unlisted" /\ \E j \in 1..Len(results) : results[j] = r
           THEN InventoryItem("discovered", NoPath)
           ELSE inv[r]]

\* inventory.push(item): the array after the rows were looked at in turn
RECURSIVE Pushed(_, _)
Pushed(ids, results) ==
    IF results = <<>> THEN ids
    ELSE IF \E j \in 1..Len(ids) : ids[j] = Head(results)
            THEN Pushed(ids, Tail(results))
            ELSE Pushed(Append(ids, Head(results)), Tail(results))

DiscoveryFrame == UNCHANGED <<cfgVars, diskVars, histVars, pc, tasks, requested,
                              itemsToProcess, run>>

\* if (await fs.pathExists(inventoryPath)) try { inventory = await
\* fs.readJSON(inventoryPath) } catch { 'starting fresh' }
DiscoveryLoad ==
    /\ runPc = "discover"
    /\ inventory' = IF inventoryFile = "ok" THEN persisted ELSE EmptyInventory
    /\ loaded' = inventory'
    /\ i' = 0
    /\ order' = IF inventoryFile = "ok" THEN order ELSE <<>>
    /\ runPc' = "search"
    /\ UNCHANGED <<dataDir, inventoryFile, persisted>>
    /\ DiscoveryFrame

\* one round of the loop over the targets: the search, which may throw (the
\* error is logged and the loop goes on), and the pushes
Search ==
    /\ runPc = "search"
    /\ i < NumTargets
    /\ \E ok \in BOOLEAN, results \in SearchResults :
          /\ inventory' = IF ok THEN PushNew(inventory, FilesToProcess(results, limit))
                                ELSE inventory
          /\ order' = IF ok THEN Pushed(order, FilesToProcess(results, limit))
                            ELSE order
    /\ i' = i + 1
    /\ UNCHANGED <<dataDir, inventoryFile, persisted, runPc, loaded>>
    /\ DiscoveryFrame

\* what follows runDiscovery: runDownload in the full cycle, else the end
AfterDiscovery == IF runMode = "full" THEN "start" ELSE "done"

\* if (options.dryRun) log; else await fs.writeJSON(inventoryPath, inventory)
SaveDiscovery ==
    /\ runPc = "search"
    /\ i >= NumTargets
    /\ IF dryRun
          THEN /\ runPc' = AfterDiscovery
               /\ UNCHANGED <<persisted, inventoryFile>>
          ELSE \E ok \in BOOLEAN :
                  IF ok THEN /\ persisted' = inventory
                             /\ inventoryFile' = "ok"
                             /\ runPc' = AfterDiscovery
                        ELSE /\ runPc' = "aborted"
                             /\ UNCHANGED <<persisted, inventoryFile>>
    /\ UNCHANGED <<dataDir, order, inventory, i, loaded>>
    /\ DiscoveryFrame

\* if (!await fs.pathExists(inventoryPath)) { log; return }
InventoryMissing ==
    /\ runPc = "start"
    /\ inventoryFile = "absent"
    /\ runPc' = "done"
    /\ UNCHANGED <<rootVars, persisted, inventory, i, loaded>>
    /\ DiscoveryFrame

\* await fs.readJSON(inventoryPath) throws: runDownload rejects and main's
\* catch ends the process
InventoryUnreadable ==
    /\ runPc = "start"
    /\ inventoryFile = "corrupt"
    /\ runPc' = "aborted"
    /\ UNCHANGED <<rootVars, persisted, inventory, i, loaded>>
    /\ DiscoveryFrame

\* an inventory.json whose first item has a filename that was written by
\* hand: ../../../../outside.html
CraftedFields ==
    [DiscoveredFields EXCEPT ![1].filename = <<"..", "..", "..", "..", "outside.html">>]

\* the inventory at the start of a run in any mode: nothing, a file that
\* does not parse, or one item, discovered or downloaded with its file
InitModes ==
    /\ runMode \in {"discover", "download", "full"}
    /\ dryRun \in BOOLEAN
    /\ limit \in {0, LimitOpt}
    /\ batchWidth = MaxWidth
    /\ isHtml = [r \in Records |-> EndsWithHtml(CdxRows[r])]
    /\ origin = [r \in Records |-> <<>>]
    /\ answers = PlainResponses
    /\ NoResolution
    /\ inventoryFile \in {"absent", "ok", "corrupt"}
    /\ \E st \in {"discovered", "downloaded"}, crafted \in BOOLEAN :
          /\ crafted => (inventoryFile = "ok" /\ st = "discovered")
          /\ fields = IF crafted THEN CraftedFields ELSE DiscoveredFields
          /\ paths = [r \in Records |-> PathOf(fields, r)]
          /\ persisted = IF inventoryFile = "ok"
                            THEN [EmptyInventory EXCEPT ![1] =
                                    InventoryItem(st, IF st = "downloaded"
                                                         THEN TargetPath(1) ELSE NoPath)]
                            ELSE EmptyInventory
          /\ files = [r \in Records |->
                        IF r = 1 /\ inventoryFile = "ok" /\ st = "downloaded"
                           THEN "complete" ELSE "absent"]
          /\ dataDir = (inventoryFile = "ok" /\ st = "downloaded")
    /\ order = IF inventoryFile = "ok" THEN <<1>> ELSE <<>>
    /\ content = [r \in Records |-> <<>>]
    /\ assets = NoAssets
    /\ inventory = EmptyInventory
    /\ loaded = inventory
    /\ itemsToProcess = <<>>
    /\ i = 0
    /\ runPc = IF runMode = "download" THEN "start" ELSE "discover"
    /\ run = 1
    /\ pc = [r \in Records |-> "idle"]
    /\ tasks = [r \in Records |-> <<>>]
    /\ requested = {}
    /\ mainOutcome = [r \in Records |-> "none"]
    /\ rewriteOutcome = [r \in Records |-> "none"]
    /\ before = [r \in Records |-> <<>>]
    /\ previous = [settled |-> {}, content |-> content, assets |-> assets]

NextModes ==
    \/ DiscoveryLoad
    \/ Search
    \/ SaveDiscovery
    \/ InventoryMissing
    \/ InventoryUnreadable
    \/ LoadInventory
    \/ StartBatch
    \/ EndLoop
    \/ SaveInventory
    \/ \E r \in Records : RecordStep(r)

SpecModes == InitModes /\ [][NextModes]_vars

(***************************************************************************)
(* Properties of the modes of a run.                                       *)
(***************************************************************************)
\* C24: a step of a dry run, in any mode, creates no directory and no file,
\* leaves inventory.json and every stored status and localPath as they are,
\* and issues no download.
C24_DryRunWritesNothing ==
    [][dryRun =>
          /\ dataDir' = dataDir
          /\ files' = files /\ content' = content /\ assets' = assets
          /\ inventoryFile' = inventoryFile /\ persisted' = persisted
          /\ requested' = requested]_vars

\* C25: while inventory.json is there and does not parse, no step of a run
\* in any mode adds or processes a record or starts a task, and none
\* writes the file.
C25_CorruptInventoryStopsRun ==
    [][inventoryFile = "corrupt" =>
          /\ inventoryFile' = "corrupt" /\ persisted' = persisted
          /\ inventory' = inventory
          /\ pc' = pc /\ requested' = requested]_vars

(***************************************************************************)
(* Properties of the ownership of a record.                                *)
(***************************************************************************)
\* C26: during a run the status and localPath of a record change only in
\* the step that ends the task of that record, once, after its main-document
\* stage and, for a downloaded HTML document, its rewriter with all its
\* resolutions have ended; that step writes no other record, and no step of
\* a resolution writes any record.
C26_OnlyOwnTaskWritesRecord ==
    /\ [][\A r \in Records :
            (run' = run /\ runPc # "start" /\ inventory'[r] # inventory[r]) =>
                /\ pc[r] \notin {"idle", "done"} /\ pc'[r] = "done"
                /\ mainOutcome'[r] # "none"
                /\ (isHtml[r] /\ inventory'[r].status = "downloaded") =>
                      /\ rewriteOutcome'[r] # "none"
                      /\ \A k \in TaskIds(r) : tasks[r][k].pc = "done"
                /\ \A q \in Records \ {r} :
                      inventory'[q] = inventory[q] /\ pc'[q] = pc[q]]_vars
    /\ [][\A r \in Records : \A k \in 1..MaxSites :
            TaskSteps(r, k) => inventory' = inventory /\ persisted' = persisted]_vars

\* a record was marked after its rewriter ended, while the task of another
\* record of the batch is still resolving and that record is as it was read
C26_Witness ==
    \E r, q \in Records :
        /\ r # q /\ r \in CurrentBatch /\ q \in CurrentBatch
        /\ pc[r] = "done" /\ inventory[r].status = "downloaded"
        /\ rewriteOutcome[r] = "rewritten" /\ Len(tasks[r]) > 0
        /\ pc[q] = "assets" /\ inventory[q] = loaded[q]

(***************************************************************************)
(* Properties of the places of the files.                                  *)
(***************************************************************************)
\* the path lies under CONFIG.DATA_DIR
UnderDataRoot(path) == Len(path) > 1 /\ path[1] = "data"

\* C27: every document file on disk lies under the data root: nothing is
\* written for a record whose fields name a path outside it, and the task of
\* such a record ends as failed.
C27_WritesStayUnderRoot ==
    \A r \in Records :
        ~UnderDataRoot(targetPath(fields[r])) =>
            /\ files[TargetPath(r)] = "absent"
            /\ pc[r] = "done" => inventory[r].status = "failed"

\* the record is an item of the inventory
Listed(r) == inventory[r].status # "unlisted"

\* C28: two records of the inventory with different ids never have the same
\* local document path, and no record is marked 'downloaded' because the
\* file it found at its path is the file another record fetched.
C28_OneFilePerRecord ==
    /\ \A r, s \in Records :
          (r # s /\ Listed(r) /\ Listed(s)) => TargetPath(r) # TargetPath(s)
    /\ \A r, s \in Records :
          (r # s /\ inventory[r].status = "downloaded" /\ mainOutcome[r] = "present")
             => ~(TargetPath(s) = TargetPath(r) /\ mainOutcome[s] = "fetched")

\* the request is an archived address in identity or image mode
Captured(q) == q.mode \in {"id_", "im_"}

\* C29: when the answer to a request of fetchWayback is a redirect to a live
\* address, the next request is the identity-mode archived address of the
\* target with the timestamp of the request that was answered, for image-mode
\* and identity-mode requests alike, also when an earlier redirect or the
\* index fallback changed the timestamp.
C29_LiveRedirectKeepsTimestamp ==
    [][\A r \in Records : \A k \in 1..MaxSites :
          (/\ TaskSteps(r, k)
           /\ InCall(tasks[r][k])
           /\ Captured(tasks[r][k].cur)
           /\ tasks[r][k].retries > 0
           /\ tasks'[r][k] = fetchWayback(r, tasks[r][k], "3xx to live"))
             => /\ tasks'[r][k].cur = [tasks[r][k].cur EXCEPT !.mode = "id_"]
                /\ tasks'[r][k].cur \in requested']_vars

\* the mode the kind of a reference asks for
ModeOf(t) == IF t.isImage THEN "im_" ELSE "id_"

\* C30: every request for a reference of kind image is in image mode, and
\* every request for a stylesheet or script and for the main document is in
\* identity mode: the direct fetch, rewritten redirects and the fallback
\* fetch alike.
C30_ModeFollowsKind ==
    \A q \in requested :
        /\ q.kind = "main" => q.mode = "id_"
        /\ (q.kind = "asset" /\ Captured(q)) =>
               \E k \in TaskIds(q.r) :
                  /\ resolveUrl(tasks[q.r][k].url).at = q.at
                  /\ resolveUrl(tasks[q.r][k].url).name = q.name
                  /\ q.mode = ModeOf(tasks[q.r][k])

IsHtmlDocument(r) == CdxRows[r].mimetype = "text/html"

\* C32: the rewriter runs for a processed record exactly when the record is
\* an HTML document, whatever the extension of its file name, and a document
\* that is no HTML is stored as fetched.
C32_RewriterIffHtml ==
    \A r \in Records :
        (pc[r] = "done" /\ inventory[r].status = "downloaded"
            /\ mainOutcome[r] # "none") =>
            /\ rewriteOutcome[r] # "none" <=> IsHtmlDocument(r)
            /\ ~IsHtmlDocument(r) => content[TargetPath(r)] = origin[r]

(***************************************************************************)
(* CdxClient.search: the request loop. `result` holds the variables of the *)
(* call: retries, success, the number of requests made, and the log of     *)
(* each answer with the delay that followed it.                            *)
(***************************************************************************)
\* const maxRetries = 5
maxRetries == 5

\* Math.pow(2, retries) * 5000
BackoffBase == 5000

\* Math.random() * 1000: below 1000
JitterBound == 1000

\* setTimeout(res, 2000) after a failed request
FailureDelay == 2000

\* setTimeout(res, 1000) after success
PolitenessDelay == 1000

\* what axios.get ends with: a response below 400, a 429, or an exception
\* (no response, or a status validateStatus rejects)
CdxAnswers == {"200", "429", "throw"}

Jitters == {0, JitterBound \div 2, JitterBound - 1}

\* const delay = Math.pow(2, retries) * 5000 + Math.random() * 1000
Backoff(retries, jitter) == (2 ^ retries) * BackoffBase + jitter

\* a loop in which an exception of the request is retried without counting
RetriesAfterUncounted(retries, a) == IF a = "429" THEN retries + 1 ELSE retries

\* retries++ in the branch of a 429 and in the catch
RetriesAfter(retries, a) == IF a = "200" THEN retries ELSE retries + 1

\* let retries = 0; let success = false
NewSearch == [pc |-> "loop", retries |-> 0, success |-> FALSE, requests |-> 0,
              log |-> <<>>]

\* one pass of while (!success && retries < maxRetries): the request, its
\* answer and the delay that follows it
SearchPass(c, a, jitter) ==
    [c EXCEPT !.requests = @ + 1,
              !.retries  = RetriesAfter(@, a),
              !.success  = (a = "200"),
              !.log      = Append(@, [answer |-> a,
                                      delay  |-> CASE a = "429" -> Backoff(c.retries, jitter)
                                                   [] a = "throw" -> FailureDelay
                                                   [] OTHER -> PolitenessDelay])]

\* if (!success || !response) throw new Error(...); else the rows are returned
SearchEnd(c) == [c EXCEPT !.pc = IF c.success THEN "returned" ELSE "thrown"]

CdxFrame ==
    UNCHANGED <<batchWidth, dryRun, limit, isHtml, origin, runMode, fields, paths,
                answers, argument, rootVars, loopVars, diskVars, histVars,
                persisted, inventory, pc, tasks, requested>>

InitCdx ==
    /\ PlainSetting
    /\ argument = NoArgument
    /\ result = NewSearch
    /\ answers = PlainResponses
    /\ batchWidth = MaxWidth
    /\ dryRun = FALSE
    /\ limit = 0
    /\ isHtml = [r \in Records |-> FALSE]
    /\ origin = [r \in Records |-> PlainDoc]
    /\ InitInventory(0, "downloaded", 1, <<"discovered", "absent">>)
    /\ assets = NoAssets
    /\ InitRun

SearchRequest ==
    /\ result.pc = "loop"
    /\ ~result.success /\ result.retries < maxRetries
    /\ \E a \in CdxAnswers, jitter \in Jitters :
          /\ a # "429" => jitter = 0
          /\ result' = SearchPass(result, a, jitter)
    /\ CdxFrame

SearchLoopEnds ==
    /\ result.pc = "loop"
    /\ ~(~result.success /\ result.retries < maxRetries)
    /\ result' = SearchEnd(result)
    /\ CdxFrame

NextCdx == SearchRequest \/ SearchLoopEnds

\* every await of the loop (the request, the timers) settles
SpecCdx == InitCdx /\ [][NextCdx]_vars /\ WF_vars(NextCdx)

\* the number of answers in the log that were no success
Failures(log) == Cardinality({j \in 1..Len(log) : log[j].answer # "200"})

Kept == {r \in Records : loaded[r].status # "unlisted"}

IsPrefix(a, b) == Len(a) <= Len(b) /\ SubSeq(b, 1, Len(a)) = a

\* C34: discovery only appends. While it runs, no two items of its array have
\* the same id, an item it added has status 'discovered', and an item it
\* loaded is there with its status and localPath at its position; each of
\* its steps leaves the items there are as they are, and what it saves
\* holds every item of the file as it was.
C34_DiscoveryAppends ==
    /\ [](runPc = "search" =>
            /\ \A j, k \in 1..Len(order) : order[j] = order[k] => j = k
            /\ {order[j] : j \in 1..Len(order)} = {r \in Records : Listed(r)}
            /\ \A j \in 1..Len(order) : order[j] \in Kept <=> j <= Cardinality(Kept)
            /\ \A r \in Records :
                  /\ r \in Kept => inventory[r] = loaded[r]
                  /\ (Listed(r) /\ r \notin Kept) =>
                        inventory[r] = InventoryItem("discovered", NoPath))
    /\ [][runPc = "search" =>
            /\ IsPrefix(order, order')
            /\ \A r \in Records : Listed(r) => inventory'[r] = inventory[r]
            /\ persisted' # persisted => persisted' = inventory
            /\ \A r \in Records :
                  (inventoryFile = "ok" /\ persisted[r].status # "unlisted")
                     => persisted'[r] = persisted[r]]_vars

\* a discovery run over an inventory that held a downloaded record added two
\* records behind it and saved all three
C34_Witness ==
    /\ runMode = "discover"
    /\ runPc = "done"
    /\ Len(order) >= 3
    /\ order[1] = 1
    /\ persisted[1] = InventoryItem("downloaded", TargetPath(1))
    /\ \A j \in 2..Len(order) :
          persisted[order[j]] = InventoryItem("discovered", NoPath)

(***************************************************************************)
(* A download run in which every await settles: several records, one of    *)
(* them an HTML page with an image, against an archive that redirects.     *)
(***************************************************************************)
InitSettling ==
    /\ PlainSetting
    /\ NoResolution
    /\ answers = Responses
    /\ batchWidth = MaxWidth
    /\ dryRun = FALSE
    /\ limit \in {0, LimitOpt}
    /\ isHtml = [r \in Records |-> r = 1]
    /\ origin = [r \in Records |-> IF r = 1 THEN << Img("rel", 1) >> ELSE <<>>]
    /\ InitInventory(NumActive, "downloaded", 2, <<"failed", "partial">>)
    /\ assets \in {NoAssets, StoredImage(1)}
    /\ InitRun

NextSettling ==
    \/ LoadInventory
    \/ StartBatch
    \/ EndLoop
    \/ SaveInventory
    \/ \E r \in Records : RecordStep(r)
    \/ \E r \in Records, k \in 1..MaxSites : AssetStep(r, k)

\* every request and every file operation returns or fails: a step that can
\* be taken is taken
SpecSettling == InitSettling /\ [][NextSettling]_vars /\ WF_vars(NextSettling)

\* the record has the status a task leaves
Final(item) == item.status \in {"downloaded", "failed"}

\* the records whose item in inventory.json differs from the one read
Changed == {r \in Records : persisted[r] # loaded[r]}

C36_DownloadedHasFile ==
    \A r \in Records :
        /\ persisted[r].status = "downloaded" =>
              /\ persisted[r].localPath = TargetPath(r)
              /\ files[TargetPath(r)] # "absent"
        /\ (runPc # "start" /\ persisted[r].status = "failed") =>
              persisted[r].localPath = loaded[r].localPath

\* a run saved one record as 'downloaded' with its path and its file, and
\* another, whose fetch failed, as 'failed' without a path
C36_Witness ==
    \E r, q \in Records :
        /\ loaded[r].status = "discovered" /\ loaded[q].status = "discovered"
        /\ persisted[r] = InventoryItem("downloaded", TargetPath(r))
        /\ files[TargetPath(r)] = "complete"
        /\ mainOutcome[r] = "fetched"
        /\ persisted[q] = InventoryItem("failed", NoPath)
        /\ mainOutcome[q] \in MainErrors

\* C37: a record is marked 'downloaded' only when the file at its path is a
\* completely fetched document, and a fetch that failed after the file was
\* created leaves no file at the path.
C37_DownloadedMeansComplete ==
    \A r \in Records :
        /\ (pc[r] = "done" /\ inventory[r].status = "downloaded")
              => files[TargetPath(r)] = "complete"
        /\ (pc[r] = "done" /\ mainOutcome[r] = "writeError")
              => files[TargetPath(r)] = "absent"

(***************************************************************************)
(* The legacy loop: for each target, Downloader.downloadFile for the files *)
(* of the search in batches. `result` holds the loop: the revision of      *)
(* downloadFile ("single": one request in a try; "retry": up to three      *)
(* attempts), the current target, the loop variable, and for each file of  *)
(* each target its call [pc, attempt, why].                                *)
(***************************************************************************)
\* the files a search returns for a target
FilesPerTarget == 3

\* for (let attempt = 1; attempt <= 3; attempt++)
Attempts == 3

Targets == 1..NumTargets
TargetFiles == 1..FilesPerTarget

Call(at, attempt, why) == [pc |-> at, attempt |-> attempt, why |-> why]

\* a catch that swallows every rejection: the call returns normally
SettleLogged(c, why) == [c EXCEPT !.pc = "resolved"]

\* the promise of an async function whose body threw outside its try, or
\* whose returned promise was rejected
SettleRejected(c, why) == [c EXCEPT !.pc = "rejected", !.why = why]

\* the catch of downloadFile: log (and return), or the next attempt
Caught(revision, c) ==
    IF revision = "retry" /\ c.attempt < Attempts
       THEN Call("request", c.attempt + 1, "none")
       ELSE SettleLogged(c, "request")

\* writer.on('error', reject): awaited inside the try (retry), or the
\* promise returned from inside the try without await (single), which the
\* catch does not see
StreamError(revision, c) ==
    IF revision = "retry" THEN Caught(revision, c) ELSE SettleRejected(c, "stream")

\* filesToProcess.slice(i, i + batchSize) of the current target
LegacyBatch(c) == {f \in TargetFiles : f > c.i /\ f <= c.i + batchSize}

Running(call) == call.pc \notin {"idle", "resolved", "rejected"}

NewLegacyLoop(revision) ==
    [revision |-> revision, pc |-> "loop", target |-> 1, i |-> 0,
     calls |-> [t \in Targets |-> [f \in TargetFiles |-> Call("idle", 0, "none")]]]

LegacyFrame ==
    UNCHANGED <<batchWidth, dryRun, limit, isHtml, origin, runMode, fields, paths,
                answers, argument, rootVars, loopVars, diskVars, histVars,
                persisted, inventory, pc, tasks, requested>>

InitLegacy ==
    /\ PlainSetting
    /\ argument = NoArgument
    /\ \E revision \in {"single", "retry"} : result = NewLegacyLoop(revision)
    /\ answers = PlainResponses
    /\ batchWidth = MaxWidth
    /\ dryRun = FALSE
    /\ limit = 0
    /\ isHtml = [r \in Records |-> FALSE]
    /\ origin = [r \in Records |-> PlainDoc]
    /\ InitInventory(0, "downloaded", 1, <<"discovered", "absent">>)
    /\ assets = NoAssets
    /\ InitRun

\* await Promise.all(batch.map(result => downloader.downloadFile(result)))
LegacyStartBatch ==
    /\ result.pc = "loop"
    /\ result.i < FilesPerTarget
    /\ result' = [result EXCEPT
            !.pc = "await",
            !.calls[result.target] =
                [f \in TargetFiles |->
                    IF f \in LegacyBatch(result) THEN Call("ensureDir", 0, "none") ELSE @[f]]]
    /\ LegacyFrame

\* one step of a call of downloadFile
DownloadFileStep(t, f) ==
    /\ result.pc \in {"loop", "await"}
    /\ Running(result.calls[t][f])
    /\ LET c == result.calls[t][f]
           rev == result.revision
       IN  \E ok \in BOOLEAN :
             result' = [result EXCEPT !.calls[t][f] =
                CASE c.pc = "ensureDir" ->
                        IF ok THEN Call("pathExists", 0, "none")
                              ELSE SettleRejected(c, "dir")
                  [] c.pc = "pathExists" ->
                        IF ok THEN SettleLogged(c, "exists")
                              ELSE Call("request", 1, "none")
                  [] c.pc = "request" ->
                        IF ok THEN [c EXCEPT !.pc = "stream"] ELSE Caught(rev, c)
                  [] OTHER ->
                        IF ok THEN SettleLogged(c, "finish") ELSE StreamError(rev, c)]
    /\ LegacyFrame

\* the next target, or the end of main
NextTarget(c) ==
    IF c.target < NumTargets
       THEN [c EXCEPT !.target = @ + 1, !.i = 0, !.pc = "loop"]
       ELSE [c EXCEPT !.pc = "done"]

\* Promise.all settles: fulfilled when every call of the batch returned,
\* rejected as soon as one call rejects; the rejection reaches the catch
\* around the target
LegacyAwait ==
    /\ result.pc = "await"
    /\ LET calls == result.calls[result.target]
           batch == LegacyBatch(result)
       IN  \/ /\ \E f \in batch : calls[f].pc = "rejected"
              /\ result' = NextTarget(result)
           \/ /\ \A f \in batch : calls[f].pc = "resolved"
              /\ result' = [result EXCEPT !.i = @ + batchSize, !.pc = "loop"]
    /\ LegacyFrame

\* the batch loop of a target ends
LegacyEndTarget ==
    /\ result.pc = "loop"
    /\ result.i >= FilesPerTarget
    /\ result' = NextTarget(result)
    /\ LegacyFrame

NextLegacy ==
    \/ LegacyStartBatch
    \/ LegacyAwait
    \/ LegacyEndTarget
    \/ \E t \in Targets, f \in TargetFiles : DownloadFileStep(t, f)

SpecLegacy == InitLegacy /\ [][NextLegacy]_vars

\* C38: Downloader.downloadFile never rejects after a failed request or a
\* write-stream error: the call returns normally, and in the legacy loop no
\* file of a target is left out because the download of another failed.
C38_DownloadFileNeverRejects ==
    /\ \A t \in Targets, f \in TargetFiles :
          result.calls[t][f].pc = "rejected" => result.calls[t][f].why = "dir"
    /\ \A t \in Targets :
          (result.pc = "done" /\ \E f \in TargetFiles : result.calls[t][f].pc = "idle")
             => \E f \in TargetFiles : /\ result.calls[t][f].pc = "rejected"
                                        /\ result.calls[t][f].why = "dir"

(***************************************************************************)
(* The rewriter by string replacement (the older index.ts). A string is a  *)
(* sequence of pieces of text; the pieces are chosen so that one reference *)
(* is a substring of another exactly when its pieces are a run of the      *)
(* other's. `argument` is the document ([sites, fetched]: the reference    *)
(* strings of its src and href attributes in order, and the references     *)
(* whose download succeeds); `result` is [content, todo]: the attribute    *)
(* values of newContent and the replacements not yet applied. The markup   *)
(* between the attribute values is left out.                               *)
(***************************************************************************)
ReferenceStrings ==
    { <<"images", "/", "spacer.gif">>, <<"spacer.gif">>, <<"/">>, <<"style.css">> }

\* the name downloadAsset gives the file of a reference: `${hash}${ext}`
HashedName(url) ==
    CASE url = <<"images", "/", "spacer.gif">> -> "0a1b.gif"
      [] url = <<"spacer.gif">>                -> "2c3d.gif"
      [] url = <<"/">>                         -> "4e5f.css"
      [] OTHER                                 -> "6071.css"

\* return `../../assets/${localFilename}`
LocalLinkOf(url) == <<"..", "/", "..", "/", "assets", "/", HashedName(url)>>

\* String.prototype.length
RECURSIVE StringLength(_)
StringLength(str) ==
    IF str = <<>> THEN 0 ELSE Len(Head(str)) + StringLength(Tail(str))

\* str.split(pattern).join(by): every occurrence of the pattern, from the
\* left and without overlap
RECURSIVE SplitJoin(_, _, _)
SplitJoin(str, pattern, by) ==
    IF Len(str) < Len(pattern) THEN str
    ELSE IF SubSeq(str, 1, Len(pattern)) = pattern
            THEN by \o SplitJoin(SubSeq(str, Len(pattern) + 1, Len(str)), pattern, by)
            ELSE <<Head(str)>> \o SplitJoin(Tail(str), pattern, by)

\* the keys of the Map `replacements` in insertion order: each reference
\* string once, when downloadAsset returned a link for it
RECURSIVE Replacements(_, _, _)
Replacements(sites, fetched, keys) ==
    IF sites = <<>> THEN keys
    ELSE IF Head(sites) \in fetched /\ \A j \in 1..Len(keys) : keys[j] # Head(sites)
            THEN Replacements(Tail(sites), fetched, Append(keys, Head(sites)))
            ELSE Replacements(Tail(sites), fetched, keys)

\* one step of the stable sort: the key goes behind every key that is not
\* shorter
InsertByLength(sorted, key) ==
    LET ahead == Cardinality({j \in 1..Len(sorted) :
                                StringLength(sorted[j]) >= StringLength(key)})
    IN  SubSeq(sorted, 1, ahead) \o <<key>> \o SubSeq(sorted, ahead + 1, Len(sorted))

\* Array.from(replacements.entries()).sort((a, b) => b[0].length - a[0].length)
RECURSIVE SortedFrom(_, _)
SortedFrom(keys, sorted) ==
    IF keys = <<>> THEN sorted
    ELSE SortedFrom(Tail(keys), InsertByLength(sorted, Head(keys)))

sortedReplacements(doc) == SortedFrom(Replacements(doc.sites, doc.fetched, <<>>), <<>>)

SiteLists == UNION {[1..n -> ReferenceStrings] : n \in 1..MaxSites}

ReplaceFrame ==
    UNCHANGED <<batchWidth, dryRun, limit, isHtml, origin, runMode, fields, paths,
                answers, argument, rootVars, loopVars, diskVars, histVars,
                persisted, inventory, pc, tasks, requested>>

\* let newContent = content, the map built
InitReplace ==
    /\ PlainSetting
    /\ \E sites \in SiteLists, fetched \in SUBSET ReferenceStrings :
          /\ argument = [sites |-> sites, fetched |-> fetched]
          /\ result = [content |-> sites, todo |-> sortedReplacements(argument)]
    /\ answers = PlainResponses
    /\ batchWidth = MaxWidth
    /\ dryRun = FALSE
    /\ limit = 0
    /\ isHtml = [r \in Records |-> FALSE]
    /\ origin = [r \in Records |-> PlainDoc]
    /\ InitInventory(0, "downloaded", 1, <<"discovered", "absent">>)
    /\ assets = NoAssets
    /\ InitRun

\* newContent = newContent.split(originalUrl).join(localLink)
ApplyReplacement ==
    /\ result.todo # <<>>
    /\ LET originalUrl == Head(result.todo)
       IN  result' = [content |-> [j \in 1..Len(result.content) |->
                                     SplitJoin(result.content[j], originalUrl,
                                               LocalLinkOf(originalUrl))],
                      todo |-> Tail(result.todo)]
    /\ ReplaceFrame

NextReplace == ApplyReplacement

SpecReplace == InitReplace /\ [][NextReplace]_vars

\* C39: after the replacements were applied in length-descending order,
\* every collected reference site whose download gave a link holds exactly
\* that link, and every other site holds its reference as it was: no
\* reference is replaced in part through a shorter one, and no link put in
\* by an earlier replacement is changed by a later one.
C39_EachSiteGetsItsLink ==
    result.todo = <<>> =>
        \A j \in 1..Len(argument.sites) :
            result.content[j] = IF argument.sites[j] \in argument.fetched
                                   THEN LocalLinkOf(argument.sites[j])
                                   ELSE argument.sites[j]

============================================================================
